---- MODULE Spec2Model ----
(***************************************************************************)
(* A model of Life-USTC/static: the SSO login state machine of             *)
(* src/src/utils/auth.py, the record normalizers of src/src/utils/jw.py    *)
(* and src/src/utils/tools.py, and the orchestrator of                     *)
(* src/src/curriculum.py.                                                  *)
(*                                                                         *)
(* Specifications:                                                         *)
(*   Spec          make_curriculum entering USTCSession: __init__, _login, *)
(*                 _after_login, then the first catalog requests           *)
(*   SpecIndex     findNearestIndex applied to one input                   *)
(*   SpecLectures  cleanLectures applied to the raw lectures of one course *)
(*   SpecCompose   compose_start_end evaluated in two environments         *)
(***************************************************************************)
EXTENDS Integers, Sequences, FiniteSets, TLC

VARIABLES
    \* ---- USTCSession (src/src/utils/auth.py) ----
    login_config,      \* LoginConfig.from_env(): attempts, state_max_turns, ...
    username_set,      \* USTC_PASSPORT_USERNAME and _PASSWORD are both non-empty
    totp,              \* self.totp is set (USTC_PASSPORT_TOTP_URL was given)
    pc,                \* the position of the run inside make_curriculum / __aenter__
    attempt,           \* _login: the loop variable attempt
    i,                 \* _run_login_state_machine: the loop variable i (the turn)
    page,              \* the browser page as the detectors saw it at the last detection
    state,             \* _run_login_state_machine: state
    redetect_i,        \* _redetect_login_state: the loop variable i
    redetected_state,  \* _run_login_state_machine: redetected_state
    \* ---- observations of the run (history, written by the actions) ----
    outcome,           \* how the current attempt ended ("running" while it runs)
    scenario,          \* what the detections of the current attempt looked like so far
    credActs,          \* _act_credentials_step calls in the current attempt
    totpActs,          \* _act_totp_step calls in the current attempt
    turnsRun,          \* turns started in the current attempt
    actError,          \* the exception the last act or wait raised ("none" if none)
    pageTouched,       \* the current attempt's last action reached the page
    log,               \* _login's calls in order: attempts, cookie clears, retry waits
    navs,              \* _after_login's navigations done, in order
    requests,          \* requests issued through RequestSession, in order
    written,           \* output files written by make_curriculum
    \* ---- findNearestIndex (src/src/utils/jw.py) ----
    fnTime, fnTable, fnResult,
    \* ---- cleanLectures (src/src/utils/jw.py) ----
    rawLectures, cleaned,
    \* ---- compose_start_end (src/src/utils/tools.py) ----
    cDate, cStart, cEnd, cEnvA, cEnvB, cResultA, cResultB,
    \* ---- parse_exams (src/src/utils/catalog.py) ----
    examPayload,       \* the validated payload: the exam items, None allowed
    examResult,        \* the dict parse_exams returns: lesson id -> list of Exam
    \* ---- make_curriculum / fetch_semester (src/src/curriculum.py) ----
    semesters,         \* the ids of the semesters get_semesters returned, in order
    todo,              \* the ids of the semesters with int(id) >= 401, in order
    semester_k,        \* the position in todo of the semester being fetched
    incomplete_courses, \* fetch_semester: the courses of the semester
    dirs,              \* the directories fetch_semester created
    saved,             \* the course files written: path -> the course saved
    course_lists,      \* the courses.json files written: path -> the list saved
    events,            \* the exceptions raised and the semesters without courses,
                       \* in order (history)
    \* ---- RequestSession.get_json and the cache (auth.py, tools.py) ----
    cacheFs,           \* the files at the cache paths: path -> kind, content, target
    cacheUrl,          \* get_json: url
    cacheBody,         \* get_json: j, the parsed body (None before r.json())
    cacheFetched,      \* the body each url last returned (history)
    cacheCalls,        \* the number of get_json calls made
    cacheBefore,       \* what was at the cache path when save_json began (history)
    \* ---- parse_jw_schedule_table (src/src/utils/jw.py) ----
    course_list,       \* the argument course_list
    schedulePayload,   \* the validated payload: result, scheduleList, the items
    cache_url,         \* the argument cache_url (None when absent)
    scheduleRaw,       \* the courses with the lectures as appended, before
                       \* cleanLectures (history)
    scheduleResult,    \* the course list parse_jw_schedule_table returns
    scheduleCached,    \* the paths of the per-course cache files it wrote
    \* ---- fetch_semester's lecture batches (src/src/curriculum.py) ----
    course_totals,     \* len(incomplete_courses) of each semester to process
    batch_k,           \* the position of the semester being fetched
    chunks,            \* incomplete_courses_chunks: the slice <<i, j>> of each chunk
    tasks,             \* the fetch_course_info tasks of the gather: how many wait
                       \* for the limiter, hold it, are done; where the last is
    sem_value,         \* sem: the free slots of asyncio.Semaphore(50)
    saved_count,       \* the courses of the gather whose files are written
    batch_of,          \* the position of the semester the tasks belong to
    netlog             \* the sleeps and the requests of the run, in order (history)

loginVars == <<login_config, username_set, totp, pc, attempt, i, page, state,
               redetect_i, redetected_state, outcome, scenario, credActs,
               totpActs, turnsRun, actError, pageTouched, log, navs, requests,
               written>>
indexVars == <<fnTime, fnTable, fnResult>>
lectureVars == <<rawLectures, cleaned>>
composeVars == <<cDate, cStart, cEnd, cEnvA, cEnvB, cResultA, cResultB>>
examVars == <<examPayload, examResult>>
batchVars == <<course_totals, batch_k, chunks, tasks, sem_value, saved_count,
               batch_of, netlog>>
curriculumVars == <<semesters, todo, semester_k, incomplete_courses, dirs,
                    saved, course_lists, events, batchVars>>
cacheVars == <<cacheFs, cacheUrl, cacheBody, cacheFetched, cacheCalls,
               cacheBefore>>
scheduleVars == <<course_list, schedulePayload, cache_url, scheduleRaw,
                  scheduleResult, scheduleCached>>
dataVars == <<examVars, curriculumVars, cacheVars, scheduleVars>>
vars == <<loginVars, indexVars, lectureVars, composeVars, dataVars>>

(***************************************************************************)
(* Bounds of the model.                                                    *)
(***************************************************************************)
MaxAttempts == 7
MaxTurns == 2
MaxRedetect == 2

(***************************************************************************)
(* LoginConfig.from_env and USTCSession.__init__                           *)
(***************************************************************************)
Max(a, b) == IF a >= b THEN a ELSE b

\* The values the environment variables may hold (integers, parsed by int()).
EnvValues ==
    [USTC_LOGIN_ATTEMPTS : {0, 1, 2, 3, MaxAttempts},
     USTC_LOGIN_STATE_MAX_TURNS : 0..MaxTurns,
     USTC_LOGIN_TURN_WAIT_MS : {-1, 0, 5000},
     USTC_LOGIN_STATE_REDETECT_WAIT_MS : {-1, 0, 1500},
     USTC_LOGIN_STATE_REDETECT_ATTEMPTS : 0..MaxRedetect]

from_env(env) ==
    [attempts |-> Max(env.USTC_LOGIN_ATTEMPTS, 1),
     state_max_turns |-> Max(env.USTC_LOGIN_STATE_MAX_TURNS, 1),
     turn_wait_ms |-> Max(env.USTC_LOGIN_TURN_WAIT_MS, 0),
     state_redetect_wait_ms |-> Max(env.USTC_LOGIN_STATE_REDETECT_WAIT_MS, 0),
     state_redetect_attempts |-> Max(env.USTC_LOGIN_STATE_REDETECT_ATTEMPTS, 1)]

LoginState == {"FILL_CREDENTIALS", "FILL_TOTP", "DONE", "UNKNOWN"}

\* Faulty variant: the second-factor step is listed first.
login_steps_totp_first == <<"FILL_TOTP", "FILL_CREDENTIALS">>

\* self.login_steps, in the order __init__ builds the list.
login_steps == <<"FILL_CREDENTIALS", "FILL_TOTP">>

(***************************************************************************)
(* The browser.  A detector's probe of the page finds its controls         *)
(* present or absent, or the probe throws.  The page is whatever the       *)
(* portal shows when a detection runs: any page.                           *)
(***************************************************************************)
Probe == {"present", "absent", "throws"}
Urls ==
    {"https://id.ustc.edu.cn/cas/login",
     "https://id.ustc.edu.cn/gate/cas-success",
     "https://id.ustc.edu.cn/gate/login-success"}
Pages == [url : Urls, credentials : Probe, totp_tab : Probe]
BlankPage == [url |-> "about:blank", credentials |-> "absent", totp_tab |-> "absent"]

\* An exception: its class name and its message.
NoError == [class_name |-> "", message |-> ""]
TotpUnsetError == [class_name |-> "ValueError", message |-> "totp_url is not set"]
BrowserErrors ==
    {[class_name |-> "TimeoutError", message |-> "Timeout 30000ms exceeded."],
     [class_name |-> "Error", message |-> "Page.click: Timeout 30000ms exceeded."],
     [class_name |-> "Error", message |-> "Target page has been closed"]}

(***************************************************************************)
(* Strings: str.lower() and the substring test `a in b`.                   *)
(***************************************************************************)
LowerChar(c) ==
    CASE c = "A" -> "a" [] c = "B" -> "b" [] c = "C" -> "c" [] c = "D" -> "d"
      [] c = "E" -> "e" [] c = "F" -> "f" [] c = "G" -> "g" [] c = "H" -> "h"
      [] c = "I" -> "i" [] c = "J" -> "j" [] c = "K" -> "k" [] c = "L" -> "l"
      [] c = "M" -> "m" [] c = "N" -> "n" [] c = "O" -> "o" [] c = "P" -> "p"
      [] c = "Q" -> "q" [] c = "R" -> "r" [] c = "S" -> "s" [] c = "T" -> "t"
      [] c = "U" -> "u" [] c = "V" -> "v" [] c = "W" -> "w" [] c = "X" -> "x"
      [] c = "Y" -> "y" [] c = "Z" -> "z" [] OTHER -> c

RECURSIVE lower(_)
lower(s) ==
    IF Len(s) = 0 THEN ""
    ELSE LowerChar(SubSeq(s, 1, 1)) \o lower(SubSeq(s, 2, Len(s)))

\* Python's `a in b` for two strings.
StrIn(a, b) ==
    \E k \in 0..(Len(b) - Len(a)) : SubSeq(b, k + 1, k + Len(a)) = a

(***************************************************************************)
(* USTCSession's pure helpers                                              *)
(***************************************************************************)
Min(a, b) == IF a <= b THEN a ELSE b

\* Faulty variant: the backoff without its cap.
_retry_wait_ms_uncapped(a) == 2000 * a

_retry_wait_ms(a) == Min(2000 * a, 10000)

\* Faulty variant: any URL that mentions success counts.
_success_reached_any_success(p) == StrIn("success", p.url)

_success_reached(p) == StrIn("cas-success", p.url)

\* Faulty variant: every exception counts as a timeout.
_is_timeout_error_always(e) == TRUE

_is_timeout_error(e) ==
    StrIn("timeout", lower(e.class_name)) \/ StrIn("timeout", lower(e.message))

\* Faulty variant: a probe that throws counts as a match.
_detect_credentials_step_throw_matches(p) == p.credentials # "absent"

\* _detect_credentials_step / _detect_totp_step: a probe that throws is caught
\* and the detector returns False.
_detect_credentials_step(p) == p.credentials = "present"
_detect_totp_step(p) == p.totp_tab = "present"

step_detect(s, p) ==
    IF s = "FILL_CREDENTIALS" THEN _detect_credentials_step(p)
    ELSE _detect_totp_step(p)

\* for step in self.login_steps: if await step.detect(self): return step.state
RECURSIVE first_detected(_, _)
first_detected(k, p) ==
    IF k > Len(login_steps) THEN "UNKNOWN"
    ELSE IF step_detect(login_steps[k], p) THEN login_steps[k]
    ELSE first_detected(k + 1, p)

_detect_login_state(p) ==
    IF _success_reached(p) THEN "DONE" ELSE first_detected(1, p)

(***************************************************************************)
(* History kept for the properties.                                        *)
(***************************************************************************)
\* What the detections of the current attempt looked like so far:
\*   "start"    no detection yet
\*   "unknown"  every turn started so far has detected UNKNOWN
\*   "fc"       the first detection gave FILL_CREDENTIALS
\*   "fc_act"   ... and one credentials action was then issued
\*   "fc_done"  ... and the detection after that action gave DONE
\*   "other"    anything else
ScenarioAfterDetect(sc, s) ==
    CASE sc = "start" ->
             IF s = "UNKNOWN" THEN "unknown"
             ELSE IF s = "FILL_CREDENTIALS" THEN "fc" ELSE "other"
      [] sc = "unknown" -> IF s = "UNKNOWN" THEN "unknown" ELSE "other"
      [] sc = "fc_act" -> IF s = "DONE" THEN "fc_done" ELSE "other"
      [] OTHER -> "other"

ScenarioAfterAct(sc, s) ==
    IF sc = "fc" /\ s = "FILL_CREDENTIALS" THEN "fc_act" ELSE "other"

(***************************************************************************)
(* Init: make_curriculum is about to construct the USTCSession.            *)
(***************************************************************************)
\* What _run_login_attempt returned (ok) and where it returned (how).
NoOutcome == [ok |-> FALSE, how |-> "running"]

IndexIdle == fnTime = 0 /\ fnTable = "start" /\ fnResult = 0
LecturesIdle == rawLectures = <<>> /\ cleaned = <<>>
ComposeIdle ==
    /\ cDate = "1970-01-01" /\ cStart = 0 /\ cEnd = 0 /\ cEnvA = 0 /\ cEnvB = 0
    /\ cResultA = <<0, 0>> /\ cResultB = <<0, 0>>

ExamsIdle == examPayload = << >> /\ examResult = << >>
NoTasks == [waiting |-> 0, holding |-> 0, done |-> 0, last |-> "none"]
BatchIdle ==
    /\ course_totals = << >> /\ batch_k = 0 /\ chunks = << >>
    /\ tasks = NoTasks /\ sem_value = 0 /\ saved_count = 0 /\ batch_of = 0
    /\ netlog = << >>
CurriculumIdle ==
    /\ semesters = << >> /\ todo = << >> /\ semester_k = 0
    /\ incomplete_courses = << >> /\ dirs = {} /\ saved = << >> /\ course_lists = << >>
    /\ events = << >> /\ BatchIdle
CacheIdle ==
    /\ cacheFs = << >> /\ cacheUrl = "" /\ cacheBody = << >>
    /\ cacheFetched = << >> /\ cacheCalls = 0 /\ cacheBefore = "nothing"
ScheduleIdle ==
    /\ course_list = << >> /\ schedulePayload = [result |-> << >>]
    /\ cache_url = << >> /\ scheduleRaw = << >> /\ scheduleResult = << >>
    /\ scheduleCached = {}
DataIdle == ExamsIdle /\ CurriculumIdle /\ CacheIdle /\ ScheduleIdle

LoginIdle ==
    /\ login_config = from_env([USTC_LOGIN_ATTEMPTS |-> 0,
                                USTC_LOGIN_STATE_MAX_TURNS |-> 0,
                                USTC_LOGIN_TURN_WAIT_MS |-> 0,
                                USTC_LOGIN_STATE_REDETECT_WAIT_MS |-> 0,
                                USTC_LOGIN_STATE_REDETECT_ATTEMPTS |-> 0])
    /\ username_set = FALSE /\ totp = FALSE
    /\ pc = "idle" /\ attempt = 0 /\ i = 0
    /\ page = BlankPage /\ state = "UNKNOWN"
    /\ redetect_i = 0 /\ redetected_state = "UNKNOWN"
    /\ outcome = NoOutcome /\ scenario = "start"
    /\ credActs = 0 /\ totpActs = 0 /\ turnsRun = 0
    /\ actError = NoError /\ pageTouched = FALSE
    /\ log = <<>> /\ navs = <<>> /\ requests = <<>> /\ written = {}

Init ==
    /\ \E env \in EnvValues : login_config = from_env(env)
    /\ username_set \in BOOLEAN
    /\ totp \in BOOLEAN
    /\ pc = "make_curriculum" /\ attempt = 0 /\ i = 0
    /\ page = BlankPage /\ state = "UNKNOWN"
    /\ redetect_i = 0 /\ redetected_state = "UNKNOWN"
    /\ outcome = NoOutcome /\ scenario = "start"
    /\ credActs = 0 /\ totpActs = 0 /\ turnsRun = 0
    /\ actError = NoError /\ pageTouched = FALSE
    /\ log = <<>> /\ navs = <<>> /\ requests = <<>> /\ written = {}
    /\ IndexIdle /\ LecturesIdle /\ ComposeIdle /\ DataIdle

otherVars == <<indexVars, lectureVars, composeVars, dataVars>>
attemptVars == <<i, page, state, redetect_i, redetected_state, outcome, scenario,
                 credActs, totpActs, turnsRun, actError, pageTouched>>
runVars == <<navs, requests, written>>

(***************************************************************************)
(* USTCSession.__init__ and __aenter__ up to _login                        *)
(***************************************************************************)
\* __init__: raises ValueError when the username or the password is empty.
USTCSession_init ==
    /\ pc = "make_curriculum"
    /\ pc' = IF username_set THEN "aenter" ELSE "config_error"
    /\ UNCHANGED <<login_config, username_set, totp, attempt, attemptVars, log,
                   runVars, otherVars>>

\* __aenter__: start playwright, launch the browser, open context and page;
\* any of them may raise, and the exception leaves __aenter__.
aenter_launch ==
    /\ pc = "aenter"
    /\ \/ pc' = "login_loop" /\ attempt' = 1
       \/ pc' = "error" /\ attempt' = attempt
    /\ UNCHANGED <<login_config, username_set, totp, attemptVars, log, runVars,
                   otherVars>>

(***************************************************************************)
(* _login, _run_login_attempt, _run_login_state_machine                    *)
(*                                                                         *)
(* The locals of an attempt (i, state, redetected_state, the page seen by  *)
(* the detection being acted on) and the attempt's history are set to      *)
(* their initial values when they go out of scope: the page seen when the  *)
(* machine has acted on the detection, redetected_state and the redetect   *)
(* counter when the loop continues, everything when _login takes over      *)
(* again after the attempt.                                                *)
(***************************************************************************)
AttemptReset ==
    /\ i' = 0 /\ page' = BlankPage /\ state' = "UNKNOWN"
    /\ redetect_i' = 0 /\ redetected_state' = "UNKNOWN"
    /\ outcome' = NoOutcome /\ scenario' = "start"
    /\ credActs' = 0 /\ totpActs' = 0 /\ turnsRun' = 0
    /\ actError' = NoError /\ pageTouched' = FALSE

\* _login's loop body up to the call of _run_login_attempt: for attempt > 1
\* the cookies are cleared first; clear_cookies may raise, which leaves _login.
login_begin_attempt ==
    /\ pc = "login_loop"
    /\ \/ /\ pc' = "goto"
          /\ log' = log
                    \o (IF attempt > 1 THEN << <<"clear_cookies", attempt>> >> ELSE << >>)
                    \o << <<"attempt", attempt>> >>
       \/ /\ attempt > 1
          /\ pc' = "error"
          /\ log' = Append(log, <<"clear_cookies", attempt>>)
    /\ UNCHANGED <<login_config, username_set, totp, attempt, attemptVars,
                   runVars, otherVars>>

\* _run_login_attempt / _run_login_state_machine return ok at the place how.
Finish(ok, how) ==
    /\ pc' = "attempt_end"
    /\ outcome' = [ok |-> ok, how |-> how]
    /\ log' = Append(log, <<IF ok THEN "success" ELSE "failed", attempt>>)
    /\ i' = i

\* `continue`, or the end of the loop body: the next turn, or the loop is over
\* and _run_login_state_machine returns False.
Continue ==
    IF i < login_config.state_max_turns
    THEN /\ pc' = "turn" /\ i' = i + 1
         /\ outcome' = outcome /\ log' = log
    ELSE Finish(FALSE, "turns_exhausted")

\* _run_login_attempt: page.goto of the login entry point; an exception is
\* caught and the attempt returns False.
run_login_attempt_goto ==
    /\ pc = "goto"
    /\ \/ /\ pc' = "turn" /\ i' = 1
          /\ UNCHANGED <<outcome, log, actError>>
       \/ \E e \in BrowserErrors :
             /\ Finish(FALSE, "goto_error")
             /\ actError' = e
    /\ UNCHANGED <<login_config, username_set, totp, attempt, page, state,
                   redetect_i, redetected_state, scenario, credActs, totpActs,
                   turnsRun, pageTouched, runVars, otherVars>>

\* One turn up to the try block: the settle wait (when turn_wait_ms > 0), which
\* may raise, and the detection.  Both are outside the try block: an exception
\* of the wait leaves _run_login_state_machine and is caught by _run_login_attempt.
turn ==
    /\ pc = "turn"
    /\ turnsRun' = i
    /\ \/ /\ login_config.turn_wait_ms > 0
          /\ \E e \in BrowserErrors : actError' = e
          /\ Finish(FALSE, "raised")
          /\ scenario' = "other"
          /\ UNCHANGED <<page, state>>
       \/ \E p \in Pages :
             /\ page' = p
             /\ state' = _detect_login_state(p)
             /\ scenario' = ScenarioAfterDetect(scenario, _detect_login_state(p))
             /\ pc' = "dispatch"
             /\ actError' = NoError
             /\ UNCHANGED <<i, outcome, log>>
    /\ UNCHANGED <<login_config, username_set, totp, attempt, redetect_i,
                   redetected_state, credActs, totpActs, pageTouched, runVars,
                   otherVars>>

\* Faulty variant: _act_totp_step does not look at the secret.
ActOutcomes_totp_unchecked(s) == {NoError} \cup BrowserErrors

\* What step.act can do: return (NoError) or raise.  _act_totp_step raises
\* ValueError before it touches the page when no TOTP secret is configured.
ActOutcomes(s) ==
    IF s = "FILL_TOTP" /\ ~totp THEN {TotpUnsetError}
    ELSE {NoError} \cup BrowserErrors

\* Faulty variant: DONE is not returned, the loop goes on.
TurnBranch_done_continues(s) ==
    IF s = "DONE" \/ s = "UNKNOWN" THEN "continue"
    ELSE IF ~(\E k \in 1..Len(login_steps) : login_steps[k] = s) THEN "return_false"
    ELSE "act"

\* Faulty variant: UNKNOWN ends the attempt instead of skipping the turn.
TurnBranch_unknown_returns(s) ==
    IF s = "DONE" THEN "return_true"
    ELSE IF s = "UNKNOWN" THEN "return_false"
    ELSE IF ~(\E k \in 1..Len(login_steps) : login_steps[k] = s) THEN "return_false"
    ELSE "act"

\* The head of the try block: what the turn does with the detected state.
TurnBranch(s) ==
    IF s = "DONE" THEN "return_true"
    ELSE IF s = "UNKNOWN" THEN "continue"
    ELSE IF ~(\E k \in 1..Len(login_steps) : login_steps[k] = s) THEN "return_false"
    ELSE "act"

\* The try block of one turn: DONE returns True, UNKNOWN continues, otherwise
\* the step of the state acts; the except clause sorts the exception.
dispatch ==
    /\ pc = "dispatch"
    /\ IF TurnBranch(state) = "return_true"
       THEN /\ Finish(TRUE, "done")
            /\ UNCHANGED <<page, scenario, credActs, totpActs, actError,
                           pageTouched, redetect_i>>
       ELSE IF TurnBranch(state) = "continue"
       THEN /\ Continue
            /\ page' = BlankPage
            /\ UNCHANGED <<scenario, credActs, totpActs, actError, pageTouched,
                           redetect_i>>
       ELSE IF TurnBranch(state) = "return_false"
       THEN /\ Finish(FALSE, "no_step")
            /\ page' = BlankPage
            /\ UNCHANGED <<scenario, credActs, totpActs, actError, pageTouched,
                           redetect_i>>
       ELSE \E e \in ActOutcomes(state) :
             /\ credActs' = credActs + (IF state = "FILL_CREDENTIALS" THEN 1 ELSE 0)
             /\ totpActs' = totpActs + (IF state = "FILL_TOTP" THEN 1 ELSE 0)
             /\ scenario' = ScenarioAfterAct(scenario, state)
             /\ actError' = e
             /\ pageTouched' = (pageTouched \/ e # TotpUnsetError)
             /\ page' = BlankPage
             /\ IF e = NoError
                THEN Continue /\ redetect_i' = redetect_i
                ELSE IF _is_timeout_error(e)
                THEN /\ pc' = "redetect" /\ redetect_i' = 1
                     /\ UNCHANGED <<i, outcome, log>>
                ELSE Finish(FALSE, "act_error") /\ redetect_i' = redetect_i
    /\ UNCHANGED <<login_config, username_set, totp, attempt, state,
                   redetected_state, turnsRun, runVars, otherVars>>

\* One round of _redetect_login_state: the wait (when state_redetect_wait_ms
\* > 0), which may raise out of the except clause, and a detection.
redetect ==
    /\ pc = "redetect"
    /\ \/ /\ login_config.state_redetect_wait_ms > 0
          /\ \E e \in BrowserErrors : actError' = e
          /\ Finish(FALSE, "raised")
          /\ scenario' = "other"
          /\ UNCHANGED <<page, redetected_state>>
       \/ \E p \in Pages :
             /\ page' = p
             /\ redetected_state' = _detect_login_state(p)
             /\ scenario' = ScenarioAfterDetect(scenario, _detect_login_state(p))
             /\ pc' = "redetected"
             /\ UNCHANGED <<i, outcome, log, actError>>
    /\ UNCHANGED <<login_config, username_set, totp, attempt, state, redetect_i,
                   credActs, totpActs, turnsRun, pageTouched, runVars, otherVars>>

\* Faulty variant: UNKNOWN after the redetection continues the loop.
RedetectBranch_unknown_continues(rs, s) ==
    IF rs = "DONE" THEN "return_true"
    ELSE IF rs # s THEN "continue"
    ELSE "return_false"

\* Faulty variant: the loop continues on every known state, the same included.
RedetectBranch_same_continues(rs, s) ==
    IF rs = "DONE" THEN "return_true"
    ELSE IF rs # "UNKNOWN" THEN "continue"
    ELSE "return_false"

\* The except clause after _redetect_login_state returned rs, for a timeout
\* at the state s.
RedetectBranch(rs, s) ==
    IF rs = "DONE" THEN "return_true"
    ELSE IF rs # "UNKNOWN" /\ rs # s THEN "continue"
    ELSE "return_false"

\* After a redetection round: a state other than UNKNOWN is returned at once,
\* UNKNOWN after the last round.  Then DONE returns True, a known state other
\* than the one that timed out continues the loop, anything else returns False.
redetect_resolve ==
    /\ pc = "redetected"
    /\ IF redetected_state = "UNKNOWN"
          /\ redetect_i < login_config.state_redetect_attempts
       THEN /\ pc' = "redetect" /\ redetect_i' = redetect_i + 1
            /\ page' = BlankPage
            /\ UNCHANGED <<i, outcome, log, redetected_state>>
       ELSE IF RedetectBranch(redetected_state, state) = "return_true"
       THEN /\ Finish(TRUE, "done_after_redetect")
            /\ UNCHANGED <<page, redetect_i, redetected_state>>
       ELSE IF RedetectBranch(redetected_state, state) = "continue"
       THEN /\ Continue
            /\ page' = BlankPage
            /\ IF i < login_config.state_max_turns
               THEN redetect_i' = 0 /\ redetected_state' = "UNKNOWN"
               ELSE UNCHANGED <<redetect_i, redetected_state>>
       ELSE /\ Finish(FALSE, "timeout_fallback")
            /\ page' = BlankPage
            /\ UNCHANGED <<redetect_i, redetected_state>>
    /\ UNCHANGED <<login_config, username_set, totp, attempt, state, scenario,
                   credActs, totpActs, turnsRun, actError, pageTouched, runVars,
                   otherVars>>

\* Faulty variant: after the last failed attempt _login returns.
LoginBranch_no_raise(ok, n, attempts) ==
    IF ok THEN "return"
    ELSE IF n < attempts THEN "retry"
    ELSE "return"

\* _login after _run_login_attempt returned: return on True; otherwise wait
\* _retry_wait_ms(attempt) when attempts remain (the wait may raise, which
\* leaves _login), and raise RuntimeError after the last attempt.
LoginBranch(ok, n, attempts) ==
    IF ok THEN "return"
    ELSE IF n < attempts THEN "retry"
    ELSE "raise"

login_after_attempt ==
    /\ pc = "attempt_end"
    /\ IF LoginBranch(outcome.ok, attempt, login_config.attempts) = "return"
       THEN pc' = "after_login" /\ UNCHANGED <<attempt, log>>
       ELSE IF LoginBranch(outcome.ok, attempt, login_config.attempts) = "retry"
       THEN /\ log' = Append(log, <<"wait", _retry_wait_ms(attempt)>>)
            /\ \/ pc' = "login_loop" /\ attempt' = attempt + 1
               \/ pc' = "error" /\ attempt' = attempt
       ELSE /\ pc' = "login_failed"
            /\ log' = Append(log, <<"RuntimeError", attempt>>)
            /\ attempt' = attempt
    /\ AttemptReset
    /\ UNCHANGED <<login_config, username_set, totp, runVars, otherVars>>

(***************************************************************************)
(* _after_login and the rest of __aenter__                                 *)
(***************************************************************************)
\* Faulty variant: the timetable portal is not visited.
after_login_catalog_only ==
    /\ pc = "after_login"
    /\ navs' = Append(navs, "catalog")
    /\ pc' \in {"session", "error"}
    /\ UNCHANGED <<login_config, username_set, totp, attempt, attemptVars, log,
                   requests, written, otherVars>>

\* page.goto of the catalog portal's service login; a raise leaves __aenter__.
after_login_catalog ==
    /\ pc = "after_login"
    /\ navs' = Append(navs, "catalog")
    /\ pc' \in {"after_login_jw", "error"}
    /\ UNCHANGED <<login_config, username_set, totp, attempt, attemptVars, log,
                   requests, written, otherVars>>

\* page.goto of the timetable portal's service login; then __aenter__ returns
\* RequestSession(self.page).
after_login_jw ==
    /\ pc = "after_login_jw"
    /\ navs' = Append(navs, "jw")
    /\ pc' \in {"session", "error"}
    /\ UNCHANGED <<login_config, username_set, totp, attempt, attemptVars, log,
                   requests, written, otherVars>>

(***************************************************************************)
(* make_curriculum with the RequestSession in hand                         *)
(***************************************************************************)
\* get_semesters: get_json of the semester list (the body is cached), parsed.
get_semesters ==
    /\ pc = "session"
    /\ requests' = Append(requests, "catalog:/api/teach/semester/list")
    /\ \/ /\ pc' = "save_semesters"
          /\ written' = written \cup {"cache/catalog/api/teach/semester/list.json"}
       \/ pc' = "error" /\ written' = written
    /\ UNCHANGED <<login_config, username_set, totp, attempt, attemptVars, log,
                   navs, otherVars>>

\* save_json(semesters, curriculum/semesters.json); then the loop over the
\* semesters with id >= 401, which may be empty.
save_semesters ==
    /\ pc = "save_semesters"
    /\ written' = written \cup {"curriculum/semesters.json"}
    /\ pc' \in {"fetch_semester", "done"}
    /\ UNCHANGED <<login_config, username_set, totp, attempt, attemptVars, log,
                   navs, requests, otherVars>>

\* fetch_semester of the first processed semester up to courses.json:
\* get_courses, whose failure is caught and skips the semester.
fetch_semester ==
    /\ pc = "fetch_semester"
    /\ requests' = Append(requests, "catalog:/api/teach/lesson/list-for-teach")
    /\ \/ written' = written \cup {"curriculum/semester/courses.json"}
       \/ written' = written
    /\ pc' = "done"
    /\ UNCHANGED <<login_config, username_set, totp, attempt, attemptVars, log,
                   navs, otherVars>>

Next ==
    \/ USTCSession_init
    \/ aenter_launch
    \/ login_begin_attempt
    \/ run_login_attempt_goto
    \/ turn
    \/ dispatch
    \/ redetect
    \/ redetect_resolve
    \/ login_after_attempt
    \/ after_login_catalog
    \/ after_login_jw
    \/ get_semesters
    \/ save_semesters
    \/ fetch_semester

Spec == Init /\ [][Next]_vars

(***************************************************************************)
(* findNearestIndex (src/src/utils/jw.py)                                  *)
(***************************************************************************)
\* The two lookup tables; a dict iterates in insertion order, index 1 to 13.
indexStartTimes ==
    <<7 * 60 + 50, 8 * 60 + 40, 9 * 60 + 45, 10 * 60 + 35, 11 * 60 + 25,
      14 * 60 + 0, 14 * 60 + 50, 15 * 60 + 35, 16 * 60 + 45, 17 * 60 + 35,
      19 * 60 + 30, 20 * 60 + 20, 21 * 60 + 10>>

endIndexTimes ==
    <<8 * 60 + 35, 9 * 60 + 25, 10 * 60 + 30, 11 * 60 + 20, 12 * 60 + 10,
      14 * 60 + 45, 15 * 60 + 35, 16 * 60 + 40, 17 * 60 + 30, 18 * 60 + 20,
      20 * 60 + 15, 21 * 60 + 5, 21 * 60 + 55>>

abs(x) == IF x < 0 THEN -x ELSE x

\* map[key] = value on a dict: a new key is added, an existing key overwritten.
DictSet(map, key, value) ==
    [k \in DOMAIN map \cup {key} |-> IF k = key THEN value ELSE map[k]]

\* for index, t in times.items(): map[abs(time - t)] = index
RECURSIVE NearestMap(_, _, _, _)
NearestMap(time, times, index, map) ==
    IF index > Len(times) THEN map
    ELSE NearestMap(time, times, index + 1,
                    DictSet(map, abs(time - times[index]), index))

\* min(map.keys())
MinKey(map) == CHOOSE d \in DOMAIN map : \A e \in DOMAIN map : d <= e

EmptyDict == [k \in {} |-> 0]

\* Faulty variant: the first index to reach a distance keeps it.
RECURSIVE NearestMapFirstWins(_, _, _, _)
NearestMapFirstWins(time, times, index, map) ==
    IF index > Len(times) THEN map
    ELSE NearestMapFirstWins(
             time, times, index + 1,
             IF abs(time - times[index]) \in DOMAIN map THEN map
             ELSE DictSet(map, abs(time - times[index]), index))

findNearestIndex_first_wins(time, times) ==
    LET map == NearestMapFirstWins(time, times, 1, EmptyDict)
    IN  map[MinKey(map)]

\* Faulty variant: the signed difference instead of the distance.
RECURSIVE NearestMapSigned(_, _, _, _)
NearestMapSigned(time, times, index, map) ==
    IF index > Len(times) THEN map
    ELSE NearestMapSigned(time, times, index + 1,
                          DictSet(map, time - times[index], index))

findNearestIndex_signed(time, times) ==
    LET map == NearestMapSigned(time, times, 1, EmptyDict)
    IN  map[MinKey(map)]

findNearestIndex(time, times) ==
    LET map == NearestMap(time, times, 1, EmptyDict)
    IN  map[MinKey(map)]

\* The inputs of SpecIndex: minute-of-day values from before midnight of the
\* day to MaxTime, and either table.
MaxEarly == 60
MaxTime == 1500
TableOf(name) == IF name = "start" THEN indexStartTimes ELSE endIndexTimes

InitIndex ==
    /\ fnTime \in (-MaxEarly)..MaxTime
    /\ fnTable \in {"start", "end"}
    /\ fnResult = 0
    /\ LoginIdle /\ LecturesIdle /\ ComposeIdle /\ DataIdle

call_findNearestIndex ==
    /\ pc = "idle"
    /\ fnResult' = findNearestIndex(fnTime, TableOf(fnTable))
    /\ pc' = "returned"
    /\ UNCHANGED <<login_config, username_set, totp, attempt, attemptVars, log,
                   runVars, fnTime, fnTable, lectureVars, composeVars, dataVars>>

NextIndex == call_findNearestIndex

SpecIndex == InitIndex /\ [][NextIndex]_vars

(***************************************************************************)
(* raw_date_to_unix_timestamp and compose_start_end                        *)
(* (src/src/utils/tools.py)                                                *)
(*                                                                         *)
(* A datetime is naive (tzinfo "none") or aware; timestamp() reads a naive *)
(* datetime in the local zone of the executing machine and an aware one    *)
(* in its own zone.  The local zone is an input of the model, localOffset, *)
(* in seconds east of UTC.                                                 *)
(***************************************************************************)
DigitValue(c) ==
    CASE c = "0" -> 0 [] c = "1" -> 1 [] c = "2" -> 2 [] c = "3" -> 3
      [] c = "4" -> 4 [] c = "5" -> 5 [] c = "6" -> 6 [] c = "7" -> 7
      [] c = "8" -> 8 [] c = "9" -> 9

RECURSIVE ParseDigits(_)
ParseDigits(s) ==
    IF Len(s) = 0 THEN 0
    ELSE ParseDigits(SubSeq(s, 1, Len(s) - 1)) * 10
         + DigitValue(SubSeq(s, Len(s), Len(s)))

\* The fields of s between the separators sep (one character).
RECURSIVE Split(_, _)
Split(s, sep) ==
    IF ~StrIn(sep, s) THEN <<s>>
    ELSE LET k == CHOOSE n \in 1..Len(s) :
                      /\ SubSeq(s, n, n) = sep
                      /\ \A m \in 1..(n - 1) : SubSeq(s, m, m) # sep
         IN  <<SubSeq(s, 1, k - 1)>> \o Split(SubSeq(s, k + 1, Len(s)), sep)

\* datetime.strptime(date_str, "%Y-%m-%d"): a naive datetime at midnight.
strptime(date_str) ==
    LET f == Split(date_str, "-")
    IN  [year |-> ParseDigits(f[1]), month |-> ParseDigits(f[2]),
         day |-> ParseDigits(f[3]), tzinfo |-> "none"]

\* The proleptic Gregorian ordinal of a date (datetime's _ymd2ord).
is_leap(year) == year % 4 = 0 /\ (year % 100 # 0 \/ year % 400 = 0)
days_before_year(year) ==
    LET y == year - 1 IN y * 365 + (y \div 4) - (y \div 100) + (y \div 400)
DaysBeforeMonthTable == <<0, 31, 59, 90, 120, 151, 181, 212, 243, 273, 304, 334>>
days_before_month(year, month) ==
    DaysBeforeMonthTable[month] + (IF month > 2 /\ is_leap(year) THEN 1 ELSE 0)
ymd2ord(year, month, day) ==
    days_before_year(year) + days_before_month(year, month) + day

\* tz = timezone("Asia/Shanghai"): UTC+8 for every date since 1992.
ShanghaiUtcOffset == 8 * 3600

\* tz.localize(dt)
localize(dt) == [dt EXCEPT !.tzinfo = "Asia/Shanghai"]

\* int(dt.timestamp())
timestamp(dt, localOffset) ==
    (ymd2ord(dt.year, dt.month, dt.day) - ymd2ord(1970, 1, 1)) * 86400
    - (IF dt.tzinfo = "none" THEN localOffset ELSE ShanghaiUtcOffset)

\* Faulty variant: the datetime is not localized, so timestamp() reads it in
\* the local zone.
raw_date_to_unix_timestamp_naive(date_str, localOffset) ==
    timestamp(strptime(date_str), localOffset)

raw_date_to_unix_timestamp(date_str, localOffset) ==
    timestamp(localize(strptime(date_str)), localOffset)

compose_datetime(date_str, hhmm, localOffset) ==
    raw_date_to_unix_timestamp(date_str, localOffset)
    + (hhmm \div 100) * 3600 + (hhmm % 100) * 60

compose_start_end(date_str, start_hhmm, end_hhmm, localOffset) ==
    <<compose_datetime(date_str, start_hhmm, localOffset),
      compose_datetime(date_str, end_hhmm, localOffset)>>

\* The inputs of SpecCompose.
MaxHour == 24
Dates == {"2021-08-10", "2024-02-29", "2024-03-01", "2026-01-01"}
Minutes == {0, 1, 35, 59, 60, 99}
HHMMs == {h * 100 + m : h \in 0..MaxHour, m \in Minutes}
LocalOffsets == {-5 * 3600, 0, 9 * 3600}

InitCompose ==
    /\ cDate \in Dates
    /\ cStart \in HHMMs
    /\ cEnd \in {835, 1220, 2359}
    /\ cEnvA \in LocalOffsets /\ cEnvB \in LocalOffsets
    /\ cResultA = <<0, 0>> /\ cResultB = <<0, 0>>
    /\ LoginIdle /\ IndexIdle /\ LecturesIdle /\ DataIdle

\* The same call on two machines, whose local zones are cEnvA and cEnvB.
call_compose_start_end ==
    /\ pc = "idle"
    /\ cResultA' = compose_start_end(cDate, cStart, cEnd, cEnvA)
    /\ cResultB' = compose_start_end(cDate, cStart, cEnd, cEnvB)
    /\ pc' = "returned"
    /\ UNCHANGED <<login_config, username_set, totp, attempt, attemptVars, log,
                   runVars, indexVars, lectureVars, cDate, cStart, cEnd, cEnvA,
                   cEnvB, dataVars>>

NextCompose == call_compose_start_end

SpecCompose == InitCompose /\ [][NextCompose]_vars

(***************************************************************************)
(* Raw lectures and cleanLectures (src/src/utils/jw.py)                    *)
(***************************************************************************)
\* The Lecture parse_jw_schedule_table builds from one schedule item of the
\* course named name.  The item's room is room.nameZh or customPlace or "".
raw_lecture(item, name) ==
    LET startHHMM == item.startTime
        endHHMM == item.endTime
        se == compose_start_end(item.date, startHHMM, endHHMM, 0)
    IN  [startDate |-> se[1],
         endDate |-> se[2],
         name |-> name,
         location |-> item.room,
         teacherName |-> item.personName,
         periods |-> item.periods,
         startIndex |-> findNearestIndex((startHHMM \div 100) * 60 + (startHHMM % 100),
                                         indexStartTimes),
         endIndex |-> findNearestIndex((endHHMM \div 100) * 60 + (endHHMM % 100),
                                       endIndexTimes),
         startHHMM |-> startHHMM,
         endHHMM |-> endHHMM]

\* if lecture.startDate >= r.startDate and lecture.endDate <= r.endDate
Contained(lecture, r) ==
    lecture.startDate >= r.startDate /\ lecture.endDate <= r.endDate

\* Faulty variant: extending an entry moves its dates but not its indices.
Absorb_dates_only(r, lecture) ==
    IF Contained(lecture, r)
    THEN [r EXCEPT
            !.teacherName = IF ~StrIn(lecture.teacherName, @)
                            THEN @ \o "," \o lecture.teacherName ELSE @,
            !.location = IF ~StrIn(lecture.location, @)
                         THEN @ \o "," \o lecture.location ELSE @]
    ELSE IF lecture.endDate = r.startDate
    THEN [r EXCEPT !.startDate = lecture.startDate]
    ELSE [r EXCEPT !.endDate = lecture.endDate]

\* Faulty variant: extending an entry also takes over the clock times.
Absorb_moves_clock(r, lecture) ==
    IF Contained(lecture, r)
    THEN [r EXCEPT
            !.teacherName = IF ~StrIn(lecture.teacherName, @)
                            THEN @ \o "," \o lecture.teacherName ELSE @,
            !.location = IF ~StrIn(lecture.location, @)
                         THEN @ \o "," \o lecture.location ELSE @]
    ELSE IF lecture.endDate = r.startDate
    THEN [r EXCEPT !.startDate = lecture.startDate,
                   !.startIndex = lecture.startIndex,
                   !.startHHMM = lecture.startHHMM]
    ELSE [r EXCEPT !.endDate = lecture.endDate,
                   !.endIndex = lecture.endIndex,
                   !.endHHMM = lecture.endHHMM]

\* The body of the inner loop for the entry r that matched: the if / elif / elif.
Absorb(r, lecture) ==
    IF Contained(lecture, r)
    THEN [r EXCEPT
            !.teacherName = IF ~StrIn(lecture.teacherName, @)
                            THEN @ \o "," \o lecture.teacherName ELSE @,
            !.location = IF ~StrIn(lecture.location, @)
                         THEN @ \o "," \o lecture.location ELSE @]
    ELSE IF lecture.endDate = r.startDate
    THEN [r EXCEPT !.startDate = lecture.startDate,
                   !.startIndex = lecture.startIndex]
    ELSE [r EXCEPT !.endDate = lecture.endDate,
                   !.endIndex = lecture.endIndex]

\* Faulty variant: the last matching entry is taken, not the first.
FirstMatch_last(lecture, result, j) ==
    LET hits == {n \in j..Len(result) :
                    \/ Contained(lecture, result[n])
                    \/ lecture.endDate = result[n].startDate
                    \/ lecture.startDate = result[n].endDate}
    IN  IF hits = {} THEN 0 ELSE CHOOSE n \in hits : \A m \in hits : m <= n

\* for r in result: the first entry, from j on, at which one of the three
\* conditions holds (the loop breaks there); 0 when the loop runs to its else.
RECURSIVE FirstMatch(_, _, _)
FirstMatch(lecture, result, j) ==
    IF j > Len(result) THEN 0
    ELSE IF \/ Contained(lecture, result[j])
            \/ lecture.endDate = result[j].startDate
            \/ lecture.startDate = result[j].endDate
    THEN j
    ELSE FirstMatch(lecture, result, j + 1)

\* One iteration of the outer loop.
clean_one(result, lecture) ==
    LET j == FirstMatch(lecture, result, 1)
    IN  IF j = 0 THEN Append(result, lecture)
        ELSE [result EXCEPT ![j] = Absorb(result[j], lecture)]

RECURSIVE clean_from(_, _, _)
clean_from(lectures, k, result) ==
    IF k > Len(lectures) THEN result
    ELSE clean_from(lectures, k + 1, clean_one(result, lectures[k]))

cleanLectures(lectures) == clean_from(lectures, 1, << >>)

\* The inputs of SpecLectures: the raw lectures of one course, at most MaxLen
\* of them, each built from a schedule item.  The items: every slot between
\* two of the time points (start <= end) for one teacher and room, one
\* slot for every teacher and room, and one more slot next to that one with
\* another teacher, room and number of periods.
MaxLen == 3
TimePoints == {1900, 2000, 2100, 2200}
Teachers == {"li", "liu", "wang"}
Rooms == {"5101", "5102"}
ScheduleItems ==
    {[date |-> "2024-03-01", startTime |-> p[1], endTime |-> p[2],
      personName |-> "li", room |-> "5101", periods |-> 2] :
        p \in {q \in TimePoints \X TimePoints : q[1] <= q[2]}}
    \cup
    {[date |-> "2024-03-01", startTime |-> 1900, endTime |-> 2000,
      personName |-> t, room |-> r, periods |-> 2] :
        t \in Teachers, r \in Rooms}
    \cup
    {[date |-> "2024-03-01", startTime |-> 2000, endTime |-> 2100,
      personName |-> "wang", room |-> "5102", periods |-> 1]}
RawLectures == {raw_lecture(item, "course") : item \in ScheduleItems}

InitLectures ==
    /\ rawLectures \in UNION {[1..n -> RawLectures] : n \in 0..MaxLen}
    /\ cleaned = << >>
    /\ LoginIdle /\ IndexIdle /\ ComposeIdle /\ DataIdle

call_cleanLectures ==
    /\ pc = "idle"
    /\ cleaned' = cleanLectures(rawLectures)
    /\ pc' = "returned"
    /\ UNCHANGED <<login_config, username_set, totp, attempt, attemptVars, log,
                   runVars, indexVars, rawLectures, composeVars, dataVars>>

NextLectures == call_cleanLectures

SpecLectures == InitLectures /\ [][NextLectures]_vars

\* The variables of the session, which the record parsers leave alone.
sessionVars == <<login_config, username_set, totp, attempt, attemptVars, log,
                 runVars>>

(***************************************************************************)
(* parse_exams (src/src/utils/catalog.py)                                  *)
(*                                                                         *)
(* An optional value is << >> for None and <<v>> for the value v.  An      *)
(* item of the validated payload is None or a record of optional fields.   *)
(***************************************************************************)
None == << >>
Some(v) == <<v>>
\* Python's truth of an optional string: None and "" are false.
Truthy(opt) == opt # None /\ opt # Some("")

\* The examType literals of catalog.py:135 and 137 ("qi zhong kao shi", the
\* midterm examination, and "qi mo kao shi", the final examination, written
\* in Chinese characters in the source).
MidtermLabel == "qizhong kaoshi"
FinalLabel == "qimo kaoshi"

\* Faulty variant: a missing code is taken for the midterm code.
exam_type_label_none_is_midterm(examType) ==
    IF examType = Some(1) \/ examType = None THEN MidtermLabel
    ELSE IF examType = Some(2) THEN FinalLabel
    ELSE "Unknown"

\* examType = "Unknown"; if == 1: midterm; elif == 2: final.
exam_type_label(examType) ==
    IF examType = Some(1) THEN MidtermLabel
    ELSE IF examType = Some(2) THEN FinalLabel
    ELSE "Unknown"

\* The five `continue` tests of the loop over the items.
exam_item_skipped(item) ==
    \/ item = None
    \/ ~Truthy(item[1].examDate)
    \/ item[1].startTime = None \/ item[1].endTime = None
    \/ item[1].lesson = None \/ item[1].lesson[1].course = None
    \/ item[1].lesson[1].id = None

\* [er.room for er in (examRooms or []) if er and er.room]
RECURSIVE room_list(_)
room_list(ers) ==
    IF Len(ers) = 0 THEN << >>
    ELSE (IF Head(ers) # None /\ Truthy(Head(ers)[1].room)
          THEN <<Head(ers)[1].room[1]>> ELSE << >>) \o room_list(Tail(ers))

\* sep.join(values)
RECURSIVE join(_, _)
join(sep, values) ==
    IF Len(values) = 0 THEN ""
    ELSE IF Len(values) = 1 THEN values[1]
    ELSE values[1] \o sep \o join(sep, Tail(values))

\* x or ""
OrEmpty(opt) == IF Truthy(opt) THEN opt[1] ELSE ""

\* The Exam built from an item that is not skipped.
exam_of(it) ==
    LET startHHMM == it.startTime[1]
        endHHMM == it.endTime[1]
        dates == compose_start_end(it.examDate[1], startHHMM, endHHMM, 0)
    IN  [startDate |-> dates[1],
         endDate |-> dates[2],
         name |-> OrEmpty(it.lesson[1].course[1].cn),
         location |-> join(", ", room_list(IF it.examRooms = None THEN << >>
                                           ELSE it.examRooms[1])),
         examType |-> exam_type_label(it.examType),
         startHHMM |-> startHHMM,
         endHHMM |-> endHHMM,
         examMode |-> OrEmpty(it.examMode)]

\* if lesson_id in result: result[lesson_id].append(exam) else: = [exam]
exam_added(result, lesson_id, exam) ==
    IF lesson_id \in DOMAIN result
    THEN [result EXCEPT ![lesson_id] = Append(@, exam)]
    ELSE DictSet(result, lesson_id, <<exam>>)

RECURSIVE parse_exams_from(_, _, _)
parse_exams_from(payload, k, result) ==
    IF k > Len(payload) THEN result
    ELSE parse_exams_from(
             payload, k + 1,
             IF exam_item_skipped(payload[k]) THEN result
             ELSE exam_added(result, payload[k][1].lesson[1].id[1],
                             exam_of(payload[k][1])))

parse_exams(payload) == parse_exams_from(payload, 1, EmptyDict)

\* The inputs of SpecExams: complete items of every exam type, and items
\* that lack one of their fields.
MaxExams == 2
ExamRoomLists ==
    {None, Some(<<Some([room |-> Some("5101")]), None,
                  Some([room |-> None]), Some([room |-> Some("5102")])>>)}
CompleteExamItems ==
    [examDate : {Some("2024-03-01")},
     startTime : {Some(835)}, endTime : {Some(1020)},
     lesson : {Some([id |-> Some(n), course |-> Some([cn |-> Some("math")])])
                  : n \in {1, 2}},
     examRooms : ExamRoomLists,
     examType : {None, Some(0), Some(1), Some(2), Some(3)},
     examMode : {None, Some("closed")}]
BaseExamItem ==
    [examDate |-> Some("2024-03-01"), startTime |-> Some(835),
     endTime |-> Some(1020),
     lesson |-> Some([id |-> Some(1), course |-> Some([cn |-> Some("math")])]),
     examRooms |-> None, examType |-> Some(1), examMode |-> None]
LackingExamItems ==
    {[BaseExamItem EXCEPT !.examDate = None],
     [BaseExamItem EXCEPT !.examDate = Some("")],
     [BaseExamItem EXCEPT !.startTime = None],
     [BaseExamItem EXCEPT !.endTime = None],
     [BaseExamItem EXCEPT !.lesson = None],
     [BaseExamItem EXCEPT !.lesson = Some([id |-> Some(1), course |-> None])],
     [BaseExamItem EXCEPT !.lesson =
          Some([id |-> None, course |-> Some([cn |-> Some("math")])])],
     [BaseExamItem EXCEPT !.lesson =
          Some([id |-> Some(1), course |-> Some([cn |-> None])])]}
ExamItems == {None} \cup {Some(it) : it \in CompleteExamItems \cup LackingExamItems}

InitExams ==
    /\ examPayload \in UNION {[1..n -> ExamItems] : n \in 0..MaxExams}
    /\ examResult = EmptyDict
    /\ pc = "idle"
    /\ LoginIdle /\ IndexIdle /\ LecturesIdle /\ ComposeIdle /\ CurriculumIdle
    /\ CacheIdle /\ ScheduleIdle

call_parse_exams ==
    /\ pc = "idle"
    /\ examResult' = parse_exams(examPayload)
    /\ pc' = "returned"
    /\ UNCHANGED <<sessionVars, indexVars, lectureVars, composeVars, examPayload,
                   curriculumVars, cacheVars, scheduleVars>>

NextExams == call_parse_exams

SpecExams == InitExams /\ [][NextExams]_vars

(***************************************************************************)
(* fetch_semester: get_exams and the attach step (src/src/curriculum.py),  *)
(* with the dict parse_exams returns                                       *)
(***************************************************************************)
\* Faulty variant: a course gets the exams of some lesson, its own or not.
attach_parsed_exams_any(courses, exams) ==
    [n \in DOMAIN courses |->
        IF DOMAIN exams # {}
        THEN [courses[n] EXCEPT !.exams = exams[CHOOSE k \in DOMAIN exams : TRUE]]
        ELSE courses[n]]

\* for course in incomplete_courses:
\*     if course.id in exams: course.exams = exams[course.id]
attach_parsed_exams(courses, exams) ==
    [n \in DOMAIN courses |->
        IF courses[n].id \in DOMAIN exams
        THEN [courses[n] EXCEPT !.exams = exams[courses[n].id]]
        ELSE courses[n]]

\* parse_courses builds each Course with its integer id and exams = [].
ParsedCourse(id) == [id |-> id, exams |-> << >>]
AttachCourseLists ==
    {<<ParsedCourse(1)>>, <<ParsedCourse(1), ParsedCourse(2)>>,
     <<ParsedCourse(3), ParsedCourse(1)>>, <<ParsedCourse(2), ParsedCourse(2)>>}

InitAttach ==
    /\ examPayload \in UNION {[1..n -> ExamItems] : n \in 0..MaxExams}
    /\ examResult = EmptyDict
    /\ incomplete_courses \in AttachCourseLists
    /\ LoginIdle /\ IndexIdle /\ LecturesIdle /\ ComposeIdle
    /\ semesters = << >> /\ todo = << >> /\ semester_k = 0
    /\ dirs = {} /\ saved = << >> /\ course_lists = << >> /\ events = << >> /\ BatchIdle
    /\ CacheIdle /\ ScheduleIdle

\* exams = await get_exams(...): the payload is parsed; when get_exams
\* raises, exams = {}.
attach_get_exams ==
    /\ pc = "idle"
    /\ \/ examResult' = parse_exams(examPayload)
       \/ examResult' = EmptyDict
    /\ pc' = "returned"
    /\ UNCHANGED <<sessionVars, indexVars, lectureVars, composeVars, examPayload,
                   curriculumVars, cacheVars, scheduleVars>>

\* The loop that attaches the exams.
attach_loop ==
    /\ pc = "returned"
    /\ incomplete_courses' = attach_parsed_exams(incomplete_courses, examResult)
    /\ pc' = "attached"
    /\ UNCHANGED <<sessionVars, indexVars, lectureVars, composeVars, examVars,
                   cacheVars, scheduleVars, semesters, todo, semester_k, dirs,
                   saved, course_lists, events, batchVars>>

NextAttach == attach_get_exams \/ attach_loop

SpecAttach == InitAttach /\ [][NextAttach]_vars

(***************************************************************************)
(* make_curriculum and fetch_semester with the RequestSession in hand      *)
(* (src/src/curriculum.py).  A request is <<kind, semester id>>.  The      *)
(* courses of a semester fit one chunk of 50, so fetch_course_info runs    *)
(* once per semester that has courses.                                     *)
(***************************************************************************)
MaxSemesters == 3
SemesterIds == {"", "221", "400", "401", "402"}
SemesterFloor == 401
ExamFloor == 221

\* int(s) raises ValueError for the empty string.
int_raises(s) == s = ""
int(s) == ParseDigits(s)

\* parse_courses builds each Course with lectures = [] and exams = [].
NewCourse(id) == [id |-> id, lectures |-> << >>, exams |-> << >>]
CourseLists == {<< >>, <<NewCourse("7")>>, <<NewCourse("7"), NewCourse("8")>>}
CourseIds == {"7", "8"}

\* Faulty variant: the floor is not applied.
semesters_to_process_all(all) == all

\* [semester for semester in semesters if int(semester.id) >= 401]
semesters_to_process(all) ==
    LET Kept(id) == int(id) >= SemesterFloor IN SelectSeq(all, Kept)

semester_path(id) == "curriculum/" \o id

\* The state in which __aenter__ has returned the RequestSession.
LoggedIn ==
    /\ login_config = from_env([USTC_LOGIN_ATTEMPTS |-> 0,
                                USTC_LOGIN_STATE_MAX_TURNS |-> 0,
                                USTC_LOGIN_TURN_WAIT_MS |-> 0,
                                USTC_LOGIN_STATE_REDETECT_WAIT_MS |-> 0,
                                USTC_LOGIN_STATE_REDETECT_ATTEMPTS |-> 0])
    /\ username_set = TRUE /\ totp = FALSE
    /\ pc = "session" /\ attempt = 1 /\ i = 0
    /\ page = BlankPage /\ state = "UNKNOWN"
    /\ redetect_i = 0 /\ redetected_state = "UNKNOWN"
    /\ outcome = NoOutcome /\ scenario = "start"
    /\ credActs = 0 /\ totpActs = 0 /\ turnsRun = 0
    /\ actError = NoError /\ pageTouched = FALSE
    /\ log = <<<<"attempt", 1>>, <<"success", 1>>>>
    /\ navs = <<"catalog", "jw">> /\ requests = << >> /\ written = {}

InitCurriculum ==
    /\ LoggedIn
    /\ semesters \in UNION {[1..n -> SemesterIds] : n \in 0..MaxSemesters}
    /\ todo = << >> /\ semester_k = 0
    /\ incomplete_courses = << >> /\ dirs = {} /\ saved = EmptyDict
    /\ course_lists = EmptyDict
    /\ events = << >> /\ BatchIdle
    /\ IndexIdle /\ LecturesIdle /\ ComposeIdle /\ ExamsIdle /\ CacheIdle
    /\ ScheduleIdle

loginFixed == <<login_config, username_set, totp, attempt, attemptVars, log, navs>>
pureVars == <<indexVars, lectureVars, composeVars, examVars, cacheVars,
              scheduleVars, batchVars>>

\* semesters = await get_semesters(session): the request may raise, which
\* leaves make_curriculum.
make_curriculum_get_semesters ==
    /\ pc = "session"
    /\ requests' = Append(requests, <<"semesters", "">>)
    /\ \/ pc' = "semesters" /\ events' = events
       \/ pc' = "error" /\ events' = Append(events, <<"get_semesters", "">>)
    /\ UNCHANGED <<loginFixed, written, pureVars, semesters, todo, semester_k,
                   incomplete_courses, dirs, saved, course_lists>>

\* save_json(semesters, semesters.json), then the list of the semesters to
\* process; int() of an empty id raises, which leaves make_curriculum.
make_curriculum_filter ==
    /\ pc = "semesters"
    /\ written' = written \cup {"curriculum/semesters.json"}
    /\ IF \E n \in DOMAIN semesters : int_raises(semesters[n])
       THEN /\ pc' = "error"
            /\ events' = Append(events, <<"int", "">>)
            /\ UNCHANGED <<todo, semester_k>>
       ELSE /\ todo' = semesters_to_process(semesters)
            /\ semester_k' = 1
            /\ pc' = "loop"
            /\ events' = events
    /\ UNCHANGED <<loginFixed, requests, pureVars, semesters, incomplete_courses,
                   dirs, saved, course_lists>>

\* The head of the loop over the semesters, and fetch_semester up to the try:
\* the directory of the semester is created.
fetch_semester_mkdir ==
    /\ pc = "loop"
    /\ IF semester_k > Len(todo)
       THEN pc' = "done" /\ dirs' = dirs
       ELSE pc' = "get_courses" /\ dirs' = dirs \cup {semester_path(todo[semester_k])}
    /\ UNCHANGED <<loginFixed, requests, written, pureVars, semesters, todo,
                   semester_k, incomplete_courses, saved, course_lists,
                   events>>

\* Faulty variant: the exception of get_courses is not caught.
CoursesFailure_aborts(id) == "raise"

\* After a failure of get_courses: print and return.
CoursesFailure(id) == "return"

\* try: get_courses; except Exception: print, return.  Otherwise courses.json
\* is saved.
fetch_semester_get_courses ==
    /\ pc = "get_courses"
    /\ LET id == todo[semester_k] IN
       /\ requests' = Append(requests, <<"courses", id>>)
       /\ \/ /\ events' = Append(events, <<"get_courses", id>>)
             /\ IF CoursesFailure(id) = "return"
                THEN pc' = "loop" /\ semester_k' = semester_k + 1
                ELSE pc' = "error" /\ semester_k' = semester_k
             /\ UNCHANGED <<incomplete_courses, written, course_lists>>
          \/ /\ incomplete_courses' \in CourseLists
             /\ written' = written \cup {semester_path(id) \o "/courses.json"}
             /\ course_lists' = DictSet(course_lists,
                                        semester_path(id) \o "/courses.json",
                                        incomplete_courses')
             /\ pc' = IF int(id) >= ExamFloor THEN "get_exams" ELSE "lectures"
             /\ UNCHANGED <<events, semester_k>>
    /\ UNCHANGED <<loginFixed, pureVars, semesters, todo, dirs, saved>>

\* for course in incomplete_courses: if course.id in exams: course.exams = ...
attach_exams(courses, exams) ==
    [n \in DOMAIN courses |->
        IF courses[n].id \in exams
        THEN [courses[n] EXCEPT !.exams = <<"exam of " \o courses[n].id>>]
        ELSE courses[n]]

\* After a failure of get_exams: print and exams = {}.
ExamsFailure(id) == "no_exams"

\* Faulty variant: courses.json is saved again once the exams are attached.
fetch_semester_get_exams_resaved ==
    /\ pc = "get_exams"
    /\ LET id == todo[semester_k] IN
       /\ requests' = Append(requests, <<"exams", id>>)
       /\ \/ /\ events' = Append(events, <<"get_exams", id>>)
             /\ incomplete_courses' = attach_exams(incomplete_courses, {})
             /\ pc' = "lectures"
          \/ /\ \E exams \in SUBSET CourseIds :
                    incomplete_courses' = attach_exams(incomplete_courses, exams)
             /\ pc' = "lectures"
             /\ events' = events
       /\ course_lists' = DictSet(course_lists,
                                  semester_path(id) \o "/courses.json",
                                  incomplete_courses')
    /\ UNCHANGED <<loginFixed, written, pureVars, semesters, todo, semester_k,
                   dirs, saved>>

\* try: get_exams; except Exception: print, exams = {}.  Then the exams are
\* attached to the courses that have some.
fetch_semester_get_exams ==
    /\ pc = "get_exams"
    /\ LET id == todo[semester_k] IN
       /\ requests' = Append(requests, <<"exams", id>>)
       /\ \/ /\ events' = Append(events, <<"get_exams", id>>)
             /\ IF ExamsFailure(id) = "no_exams"
                THEN /\ incomplete_courses' = attach_exams(incomplete_courses, {})
                     /\ pc' = "lectures"
                ELSE /\ incomplete_courses' = incomplete_courses
                     /\ pc' = "error"
          \/ /\ \E exams \in SUBSET CourseIds :
                    incomplete_courses' = attach_exams(incomplete_courses, exams)
             /\ pc' = "lectures"
             /\ events' = events
    /\ UNCHANGED <<loginFixed, written, pureVars, semesters, todo, semester_k,
                   dirs, saved, course_lists>>

\* update_lectures: the courses of the chunk with the lectures parsed from
\* the schedule table, here the same lectures ls for every course.
MergedLectures == {<< >>, <<"lecture">>}
update_lectures(courses, ls) ==
    [n \in DOMAIN courses |-> [courses[n] EXCEPT !.lectures = ls]]

\* save_json(course, semester_path / id.json); save_json(course, api/course/id)
RECURSIVE save_courses(_, _, _)
save_courses(files, id, courses) ==
    IF Len(courses) = 0 THEN files
    ELSE save_courses(
             DictSet(DictSet(files,
                             semester_path(id) \o "/" \o Head(courses).id \o ".json",
                             Head(courses)),
                     "api/course/" \o Head(courses).id, Head(courses)),
             id, Tail(courses))

\* Faulty variant: an exception of update_lectures is swallowed and the loop
\* of make_curriculum goes on with the next semester.
fetch_course_info_failure_skipped ==
    /\ pc = "lectures"
    /\ LET id == todo[semester_k] IN
       IF Len(incomplete_courses) = 0
       THEN /\ pc' = "loop" /\ semester_k' = semester_k + 1
            /\ events' = Append(events, <<"no_chunks", id>>)
            /\ UNCHANGED <<requests, saved, incomplete_courses>>
       ELSE /\ requests' = Append(requests, <<"lectures", id>>)
            /\ \/ /\ pc' = "loop" /\ semester_k' = semester_k + 1
                  /\ events' = Append(events, <<"update_lectures", id>>)
                  /\ UNCHANGED <<saved, incomplete_courses>>
               \/ /\ \E ls \in MergedLectures :
                         saved' = save_courses(saved, id,
                                               update_lectures(incomplete_courses, ls))
                  /\ pc' = "loop" /\ semester_k' = semester_k + 1
                  /\ incomplete_courses' = << >>
                  /\ events' = events
    /\ UNCHANGED <<loginFixed, written, pureVars, semesters, todo, dirs,
                   course_lists>>

\* The chunk of the semester: update_lectures, whose exception leaves
\* fetch_semester and make_curriculum, then the two files of every course.
\* A semester without courses has no chunk.
fetch_course_info ==
    /\ pc = "lectures"
    /\ LET id == todo[semester_k] IN
       IF Len(incomplete_courses) = 0
       THEN /\ pc' = "loop" /\ semester_k' = semester_k + 1
            /\ events' = Append(events, <<"no_chunks", id>>)
            /\ UNCHANGED <<requests, saved, incomplete_courses>>
       ELSE /\ requests' = Append(requests, <<"lectures", id>>)
            /\ \/ /\ pc' = "error"
                  /\ events' = Append(events, <<"update_lectures", id>>)
                  /\ UNCHANGED <<semester_k, saved, incomplete_courses>>
               \/ /\ \E ls \in MergedLectures :
                         saved' = save_courses(saved, id,
                                               update_lectures(incomplete_courses, ls))
                  /\ pc' = "loop" /\ semester_k' = semester_k + 1
                  /\ incomplete_courses' = << >>
                  /\ events' = events
    /\ UNCHANGED <<loginFixed, written, pureVars, semesters, todo, dirs,
                   course_lists>>

NextCurriculum ==
    \/ make_curriculum_get_semesters
    \/ make_curriculum_filter
    \/ fetch_semester_mkdir
    \/ fetch_semester_get_courses
    \/ fetch_semester_get_exams
    \/ fetch_course_info

SpecCurriculum == InitCurriculum /\ [][NextCurriculum]_vars

(***************************************************************************)
(* fetch_semester's lecture batches (src/src/curriculum.py) and the delays *)
(* of the fetchers (catalog.py, jw.py)                                     *)
(*                                                                         *)
(* The courses of a semester are the positions 0 .. n-1 of                 *)
(* incomplete_courses; a chunk is the slice <<i, j>> of the positions      *)
(* i .. j-1.  The fetch_course_info tasks of one gather differ only in     *)
(* their chunk, and all chunks but the last have the same size, so the     *)
(* state keeps how many tasks wait for the limiter, hold it and are done,  *)
(* and where the task of the last chunk is.  Tasks enter the limiter in    *)
(* the order gather created them (asyncio.Semaphore wakes its waiters      *)
(* first in, first out), so the last task is the last one to enter.        *)
(***************************************************************************)
MaxBatchSemesters == 2
MaxCourses == 2551
BatchSize == 50
LimiterSize == 50
SleepSeconds == 10

\* Faulty variant: every slice is one course longer.
incomplete_courses_chunks_overlapping(n) ==
    [k \in 1..((n + BatchSize - 1) \div BatchSize) |->
        <<(k - 1) * BatchSize, Min((k - 1) * BatchSize + BatchSize + 1, n)>>]

\* [incomplete_courses[i : i + 50] for i in range(0, len(incomplete_courses), 50)]
incomplete_courses_chunks(n) ==
    [k \in 1..((n + BatchSize - 1) \div BatchSize) |->
        <<(k - 1) * BatchSize, Min((k - 1) * BatchSize + BatchSize, n)>>]

\* The number of courses of the chunk.
chunk_len(chunk) == chunk[2] - chunk[1]

\* Faulty variant: gather returns when one task is done.
gather_returns_first_done(t, n) == t.done >= 1 \/ n = 0

\* await asyncio.gather(*tasks) returns when every one of the n tasks is done.
gather_returns(t, n) == t.done = n

\* The fetchers: await asyncio.sleep(10) where the fetcher has it, then the
\* request.
fetch_semesters_json == << <<"fetch", "semesters">> >>
fetch_courses_json == << <<"sleep", SleepSeconds>>, <<"fetch", "courses">> >>
fetch_exams_json == << <<"sleep", SleepSeconds>>, <<"fetch", "exams">> >>
fetch_jw_schedule_table_json == << <<"fetch", "schedule">> >>

\* The numbers of courses a semester may have: none, one full chunk, a full
\* chunk and one course, more chunks than the limiter has slots.
CourseTotals == {0, BatchSize, BatchSize + 1, MaxCourses}

InitBatches ==
    /\ LoggedIn
    /\ course_totals \in UNION {[1..n -> CourseTotals] : n \in 1..MaxBatchSemesters}
    /\ batch_k = 0 /\ chunks = << >> /\ tasks = NoTasks /\ sem_value = 0
    /\ saved_count = 0 /\ batch_of = 0 /\ netlog = << >>
    /\ semesters = << >> /\ todo = << >> /\ semester_k = 0
    /\ incomplete_courses = << >> /\ dirs = {} /\ saved = << >> /\ course_lists = << >>
    /\ events = << >>
    /\ IndexIdle /\ LecturesIdle /\ ComposeIdle /\ ExamsIdle /\ CacheIdle
    /\ ScheduleIdle

batchRest == <<loginFixed, requests, written, indexVars, lectureVars, composeVars,
               examVars, cacheVars, scheduleVars, semesters, todo, semester_k,
               incomplete_courses, dirs, saved, course_lists, events,
               course_totals>>

\* make_curriculum: semesters = await get_semesters(session); a raise leaves
\* make_curriculum.
batch_get_semesters ==
    /\ pc = "session"
    /\ netlog' = netlog \o fetch_semesters_json
    /\ \/ pc' = "next_semester" /\ batch_k' = 1
       \/ pc' = "error" /\ batch_k' = batch_k
    /\ UNCHANGED <<chunks, tasks, sem_value, saved_count, batch_of, batchRest>>

\* The loop of make_curriculum and fetch_semester up to courses.json:
\* get_courses, whose failure is caught and ends fetch_semester; after the
\* last semester make_curriculum is done.
batch_get_courses ==
    /\ pc = "next_semester"
    /\ IF batch_k > Len(course_totals)
       THEN pc' = "done" /\ UNCHANGED <<netlog, batch_k>>
       ELSE /\ netlog' = netlog \o fetch_courses_json
            /\ \/ pc' = "exams" /\ batch_k' = batch_k
               \/ pc' = "next_semester" /\ batch_k' = batch_k + 1
    /\ UNCHANGED <<chunks, tasks, sem_value, saved_count, batch_of, batchRest>>

\* get_exams (caught when it raises), the limiter, the chunks and the tasks;
\* asyncio.gather is awaited.
batch_get_exams ==
    /\ pc = "exams"
    /\ netlog' = netlog \o fetch_exams_json
    /\ chunks' = incomplete_courses_chunks(course_totals[batch_k])
    /\ tasks' = [waiting |-> Len(chunks'), holding |-> 0, done |-> 0,
                 last |-> IF Len(chunks') = 0 THEN "none" ELSE "waiting"]
    /\ sem_value' = LimiterSize
    /\ saved_count' = 0
    /\ batch_of' = batch_k
    /\ pc' = "gather"
    /\ UNCHANGED <<batch_k, batchRest>>

\* fetch_course_info: async with sem passes when a slot is free, and
\* update_lectures posts the chunk's lesson ids at once.
task_acquire ==
    /\ pc = "gather"
    /\ tasks.waiting > 0 /\ sem_value > 0
    /\ tasks' = [tasks EXCEPT !.waiting = @ - 1, !.holding = @ + 1,
                              !.last = IF tasks.waiting = 1 THEN "holding" ELSE @]
    /\ sem_value' = sem_value - 1
    /\ netlog' = netlog \o fetch_jw_schedule_table_json
    /\ UNCHANGED <<pc, batch_k, chunks, saved_count, batch_of, batchRest>>

\* A task that holds the limiter gets its response: the lectures are parsed,
\* the two files of each course of the chunk are written and the limiter is
\* released; or update_lectures raises, which leaves the gather,
\* fetch_semester and make_curriculum.
task_finish ==
    /\ pc = "gather"
    /\ tasks.holding > 0
    /\ \/ /\ tasks.last = "holding"
          /\ tasks' = [tasks EXCEPT !.holding = @ - 1, !.done = @ + 1,
                                    !.last = "done"]
          /\ saved_count' = saved_count + chunk_len(chunks[Len(chunks)])
          /\ sem_value' = sem_value + 1
          /\ pc' = pc
       \/ /\ tasks.holding > (IF tasks.last = "holding" THEN 1 ELSE 0)
          /\ tasks' = [tasks EXCEPT !.holding = @ - 1, !.done = @ + 1]
          /\ saved_count' = saved_count + chunk_len(chunks[1])
          /\ sem_value' = sem_value + 1
          /\ pc' = pc
       \/ /\ pc' = "error"
          /\ UNCHANGED <<tasks, saved_count, sem_value>>
    /\ UNCHANGED <<batch_k, chunks, batch_of, netlog, batchRest>>

\* The gather returns, fetch_semester returns, the loop goes to the next
\* semester.
gather_return ==
    /\ pc = "gather"
    /\ gather_returns(tasks, Len(chunks))
    /\ pc' = "next_semester"
    /\ batch_k' = batch_k + 1
    /\ UNCHANGED <<chunks, tasks, sem_value, saved_count, batch_of, netlog,
                   batchRest>>

NextBatches ==
    \/ batch_get_semesters
    \/ batch_get_courses
    \/ batch_get_exams
    \/ task_acquire
    \/ task_finish
    \/ gather_return

SpecBatches == InitBatches /\ [][NextBatches]_vars

(***************************************************************************)
(* RequestSession.get_json, save_json and cache_dir_from_url               *)
(* (src/src/utils/auth.py, src/src/utils/tools.py)                         *)
(*                                                                         *)
(* The file system is a function from path to what is there: a regular     *)
(* file with its content, or a symlink with its target.                    *)
(***************************************************************************)
\* The least n >= from at which sub occurs in s, or 0.
RECURSIVE IndexOf(_, _, _)
IndexOf(s, sub, from) ==
    IF from + Len(sub) - 1 > Len(s) THEN 0
    ELSE IF SubSeq(s, from, from + Len(sub) - 1) = sub THEN from
    ELSE IndexOf(s, sub, from + 1)

\* The least positive of two indexes, 0 meaning "not found".
FirstOf(a, b) == IF a = 0 THEN b ELSE IF b = 0 THEN a ELSE Min(a, b)

\* s up to the first of the characters "?" and "#".
BeforeQuery(s) ==
    LET n == FirstOf(IndexOf(s, "?", 1), IndexOf(s, "#", 1))
    IN  IF n = 0 THEN s ELSE SubSeq(s, 1, n - 1)

\* urlparse(url): netloc and path of scheme://netloc/path?query#fragment.
urlparse(url) ==
    LET n == IndexOf(url, "://", 1)
        rest == IF n = 0 THEN url ELSE SubSeq(url, n + 3, Len(url))
        hier == BeforeQuery(rest)
        slash == IndexOf(hier, "/", 1)
    IN  IF n = 0 THEN [netloc |-> "", path |-> hier]
        ELSE IF slash = 0 THEN [netloc |-> hier, path |-> ""]
        ELSE [netloc |-> SubSeq(hier, 1, slash - 1),
              path |-> SubSeq(hier, slash, Len(hier))]

\* str.lstrip("/")
RECURSIVE lstrip_slash(_)
lstrip_slash(s) ==
    IF Len(s) > 0 /\ SubSeq(s, 1, 1) = "/"
    THEN lstrip_slash(SubSeq(s, 2, Len(s))) ELSE s

\* The components pathlib keeps of a relative path: empty ones and "." go.
path_parts(s) ==
    LET Kept(part) == part # "" /\ part # "." IN SelectSeq(Split(s, "/"), Kept)

host_abbrs(host) ==
    IF host = "catalog.ustc.edu.cn" THEN "catalog"
    ELSE IF host = "jw.ustc.edu.cn" THEN "jw"
    ELSE host

\* Faulty variant: only the last component of the URL path is kept.
cache_dir_from_url_basename(url) ==
    LET parsed == urlparse(url)
        parts == path_parts(lstrip_slash(parsed.path))
    IN  join("/", <<"build", "cache">>
                  \o path_parts(host_abbrs(parsed.netloc))
                  \o (IF Len(parts) = 0 THEN << >> ELSE <<parts[Len(parts)]>>))

\* Path("build") / "cache" / host / path
cache_dir_from_url(url) ==
    LET parsed == urlparse(url)
    IN  join("/", <<"build", "cache">>
                  \o path_parts(host_abbrs(parsed.netloc))
                  \o path_parts(lstrip_slash(parsed.path)))

\* str(n) for n >= 0
RECURSIVE str(_)
str(n) ==
    LET digit == SubSeq("0123456789", (n % 10) + 1, (n % 10) + 1)
    IN  IF n < 10 THEN digit ELSE str(n \div 10) \o digit

\* json.dump of a list of integers, with the default separators.
RECURSIVE dump_items(_)
dump_items(j) ==
    IF Len(j) = 0 THEN ""
    ELSE IF Len(j) = 1 THEN str(j[1])
    ELSE str(j[1]) \o ", " \o dump_items(Tail(j))
dump(j) == "[" \o dump_items(j) \o "]"

RegularFile(content) == [kind |-> "file", content |-> content, target |-> ""]
Symlink(target) == [kind |-> "symlink", content |-> "", target |-> target]
Unlinked(fs, path) == [q \in DOMAIN fs \ {path} |-> fs[q]]

\* open(path, "w") and dump: a symlink is followed, anything else is
\* created or truncated.
written_through(fs, path, obj) ==
    IF path \in DOMAIN fs /\ fs[path].kind = "symlink"
    THEN DictSet(fs, fs[path].target, RegularFile(dump(obj)))
    ELSE DictSet(fs, path, RegularFile(dump(obj)))

\* Faulty variant: the path is not unlinked before it is opened.
save_json_no_unlink(fs, obj, path) == written_through(fs, path, obj)

\* save_json: if path.is_symlink() or path.exists(): path.unlink(); then
\* open and dump.
save_json(fs, obj, path) ==
    written_through(IF path \in DOMAIN fs THEN Unlinked(fs, path) ELSE fs,
                    path, obj)

\* path = Path(f"{cache_dir_from_url(url)}.json")
cache_path(url) == cache_dir_from_url(url) \o ".json"

\* The URLs the fetchers pass to get_json: the semester list, the courses
\* and the exams of a semester (catalog.py:16, 48, 107), and the lesson search
\* of jw.py:134-141, of whose query only the last parameter is written out.
MaxCalls == 2
FetchedSemesterIds == {"401", "402"}
FetchedUrls ==
    {"https://catalog.ustc.edu.cn/api/teach/semester/list"}
    \cup {"https://catalog.ustc.edu.cn/api/teach/lesson/list-for-teach/" \o id
              : id \in FetchedSemesterIds}
    \cup {"https://catalog.ustc.edu.cn/api/teach/exam/list/" \o id
              : id \in FetchedSemesterIds}
    \cup {"https://jw.ustc.edu.cn/for-std/lesson-search/semester/" \o id
              \o "/search/" \o "9" \o "?" \o "queryPage__=1%2C100000"
              : id \in FetchedSemesterIds}
Bodies == {<< >>, <<7>>, <<7, 12>>}
StaticFile == "static/list.json"

\* What is at the cache path of the semester list before the run: nothing,
\* a file of an earlier run, or a symlink to a file outside the cache.
InitCache ==
    /\ \E at \in {"nothing", "file", "symlink"} :
           cacheFs =
               LET outside == DictSet(EmptyDict, StaticFile, RegularFile("[0]"))
                   path == cache_path("https://catalog.ustc.edu.cn/api/teach/semester/list")
               IN  IF at = "nothing" THEN outside
                   ELSE IF at = "file" THEN DictSet(outside, path, RegularFile("[0]"))
                   ELSE DictSet(outside, path, Symlink(StaticFile))
    /\ cacheUrl = "" /\ cacheBody = None
    /\ cacheFetched = EmptyDict /\ cacheCalls = 0 /\ cacheBefore = "nothing"
    /\ LoggedIn
    /\ IndexIdle /\ LecturesIdle /\ ComposeIdle /\ ExamsIdle /\ CurriculumIdle
    /\ ScheduleIdle

cacheRest == <<loginFixed, requests, written, indexVars, lectureVars, composeVars,
               examVars, curriculumVars, scheduleVars>>

\* r = await self.get(url); j = await r.json(): either may raise, and then
\* get_json returns nothing.
get_json_request ==
    /\ pc \in {"session", "returned", "raised", "posted", "post_raised"}
    /\ cacheCalls < MaxCalls
    /\ cacheCalls' = cacheCalls + 1
    /\ cacheUrl' \in FetchedUrls
    /\ \/ pc' = "got_json" /\ \E j \in Bodies : cacheBody' = Some(j)
       \/ pc' = "raised" /\ cacheBody' = None
    /\ UNCHANGED <<cacheFs, cacheFetched, cacheBefore, cacheRest>>

\* The parent directory is made and save_json(j, path) writes the file.
get_json_save ==
    /\ pc = "got_json"
    /\ cacheFs' = save_json(cacheFs, cacheBody[1], cache_path(cacheUrl))
    /\ cacheBefore' = IF cache_path(cacheUrl) \in DOMAIN cacheFs
                      THEN cacheFs[cache_path(cacheUrl)].kind ELSE "nothing"
    /\ pc' = "saved"
    /\ UNCHANGED <<cacheUrl, cacheBody, cacheFetched, cacheCalls, cacheRest>>

\* return j
get_json_return ==
    /\ pc = "saved"
    /\ cacheFetched' = DictSet(cacheFetched, cacheUrl, cacheBody[1])
    /\ pc' = "returned"
    /\ UNCHANGED <<cacheFs, cacheUrl, cacheBody, cacheCalls, cacheBefore,
                   cacheRest>>

\* The URL that update_lectures posts to (jw.py:311).
PostUrl == "https://jw.ustc.edu.cn/ws/schedule-table/datum"

\* Faulty variant: post_json caches the body it parsed, as get_json does.
post_json_cached ==
    /\ pc \in {"session", "returned", "raised", "posted", "post_raised"}
    /\ cacheCalls < MaxCalls
    /\ cacheCalls' = cacheCalls + 1
    /\ cacheUrl' = PostUrl
    /\ \/ /\ pc' = "posted"
          /\ \E j \in Bodies :
                 /\ cacheBody' = Some(j)
                 /\ cacheFs' = save_json(cacheFs, j, cache_path(PostUrl))
       \/ pc' = "post_raised" /\ cacheBody' = None /\ cacheFs' = cacheFs
    /\ UNCHANGED <<cacheFetched, cacheBefore, cacheRest>>

\* post_json: r = await self.post(url, data); return await r.json().  Either
\* may raise; nothing is saved.
post_json ==
    /\ pc \in {"session", "returned", "raised", "posted", "post_raised"}
    /\ cacheCalls < MaxCalls
    /\ cacheCalls' = cacheCalls + 1
    /\ cacheUrl' = PostUrl
    /\ \/ pc' = "posted" /\ \E j \in Bodies : cacheBody' = Some(j)
       \/ pc' = "post_raised" /\ cacheBody' = None
    /\ UNCHANGED <<cacheFs, cacheFetched, cacheBefore, cacheRest>>

NextCache == get_json_request \/ get_json_save \/ get_json_return \/ post_json

SpecCache == InitCache /\ [][NextCache]_vars

(***************************************************************************)
(* save_json step by step (src/src/utils/tools.py), with the process       *)
(* ending at any point.  cacheFs is what the disk holds: after the unlink  *)
(* the path is missing, after open(path, "w") it is an empty file, and     *)
(* while dump writes, the file holds what has been flushed so far, a       *)
(* prefix of the text.                                                     *)
(***************************************************************************)
SavedUrl == "https://catalog.ustc.edu.cn/api/teach/semester/list"
OldText == "[0]"
SavedObjects == Bodies \cup {<<7, 12, 401>>}

\* What is at the path before the call: nothing, a file of an earlier run,
\* or a symlink; obj is one of the bodies or a longer list.
InitSave ==
    /\ \E at \in {"nothing", "file", "symlink"} :
           /\ cacheFs =
                  LET outside == DictSet(EmptyDict, StaticFile, RegularFile(OldText))
                  IN  IF at = "nothing" THEN outside
                      ELSE IF at = "file"
                      THEN DictSet(outside, cache_path(SavedUrl), RegularFile(OldText))
                      ELSE DictSet(outside, cache_path(SavedUrl), Symlink(StaticFile))
           /\ cacheBefore = at
    /\ cacheUrl = SavedUrl
    /\ \E j \in SavedObjects : cacheBody = Some(j)
    /\ cacheFetched = EmptyDict /\ cacheCalls = 0
    /\ LoginIdle
    /\ IndexIdle /\ LecturesIdle /\ ComposeIdle /\ ExamsIdle /\ CurriculumIdle
    /\ ScheduleIdle

saveRest == <<cacheUrl, cacheBody, cacheFetched, cacheCalls, cacheBefore,
              cacheRest>>

\* What the file may hold after the next flush of dump's output: a longer
\* prefix of the text, up to all of it.
flushed_prefixes(text, have) ==
    {SubSeq(text, 1, m) : m \in (Len(have) + 1)..Len(text)}

\* if path.is_symlink() or path.exists(): path.unlink()
save_json_unlink ==
    /\ pc = "idle"
    /\ cacheFs' = IF cache_path(cacheUrl) \in DOMAIN cacheFs
                  THEN Unlinked(cacheFs, cache_path(cacheUrl)) ELSE cacheFs
    /\ pc' = "unlinked"
    /\ UNCHANGED saveRest

\* with open(path, "w") as f: the file is created, empty.
save_json_open ==
    /\ pc = "unlinked"
    /\ cacheFs' = DictSet(cacheFs, cache_path(cacheUrl), RegularFile(""))
    /\ pc' = "opened"
    /\ UNCHANGED saveRest

\* dump(obj, f, ...): the text reaches the file flush by flush; after the
\* last one the file is closed and save_json returns.
save_json_dump ==
    /\ pc = "opened"
    /\ \E text \in flushed_prefixes(dump(cacheBody[1]),
                                    cacheFs[cache_path(cacheUrl)].content) :
           /\ cacheFs' = DictSet(cacheFs, cache_path(cacheUrl), RegularFile(text))
           /\ pc' = IF text = dump(cacheBody[1]) THEN "saved" ELSE "opened"
    /\ UNCHANGED saveRest

\* The process is interrupted during save_json: the disk keeps what it holds.
save_json_interrupted ==
    /\ pc \in {"idle", "unlinked", "opened"}
    /\ pc' = "interrupted"
    /\ UNCHANGED <<cacheFs, saveRest>>

NextSave ==
    \/ save_json_unlink
    \/ save_json_open
    \/ save_json_dump
    \/ save_json_interrupted

SpecSave == InitSave /\ [][NextSave]_vars

(***************************************************************************)
(* parse_jw_schedule_table (src/src/utils/jw.py)                           *)
(*                                                                         *)
(* A course is its id, its name and its lectures.  The payload is          *)
(* [result |-> None] or [result |-> Some([scheduleList |-> ...])], the     *)
(* schedule list None or the items, an item None or a record of optional   *)
(* fields.                                                                 *)
(***************************************************************************)
\* The position of the first course of the list with the id, or 0:
\* next((course for course in course_list if course.id == lessonId), None)
RECURSIVE course_index(_, _, _)
course_index(courses, lessonId, n) ==
    IF n > Len(courses) THEN 0
    ELSE IF courses[n].id = lessonId THEN n
    ELSE course_index(courses, lessonId, n + 1)

\* The `continue` tests of the loop over the schedule items.
schedule_item_skipped(item, courses) ==
    \/ item = None
    \/ item[1].lessonId = None
    \/ item[1].startTime = None \/ item[1].endTime = None
    \/ ~Truthy(item[1].date)
    \/ course_index(courses, item[1].lessonId[1], 1) = 0

\* room.nameZh if room and room.nameZh else customPlace or ""
schedule_location(it) ==
    IF it.room # None /\ Truthy(it.room[1].nameZh)
    THEN it.room[1].nameZh[1]
    ELSE OrEmpty(it.customPlace)

\* Faulty variant: a missing periods value becomes 1.
periods_or_zero_one(opt) == IF opt # None /\ opt # Some(0) THEN opt[1] ELSE 1

\* schedule_item.periods if schedule_item.periods else 0
periods_or_zero(opt) == IF opt # None /\ opt # Some(0) THEN opt[1] ELSE 0

\* The Lecture of an item that is not skipped, for the course it belongs to.
schedule_lecture(it, course) ==
    raw_lecture([date |-> it.date[1],
                 startTime |-> it.startTime[1],
                 endTime |-> it.endTime[1],
                 personName |-> OrEmpty(it.personName),
                 room |-> schedule_location(it),
                 periods |-> periods_or_zero(it.periods)],
                course.name)

\* Faulty variant: the lecture is appended to every course with the lesson id.
RECURSIVE lectures_appended_all(_, _, _)
lectures_appended_all(courses, items, k) ==
    IF k > Len(items) THEN courses
    ELSE lectures_appended_all(
             IF schedule_item_skipped(items[k], courses) THEN courses
             ELSE [n \in DOMAIN courses |->
                      IF courses[n].id = items[k][1].lessonId[1]
                      THEN [courses[n] EXCEPT !.lectures =
                               Append(@, schedule_lecture(items[k][1], courses[n]))]
                      ELSE courses[n]],
             items, k + 1)

\* The loop over the schedule items: course.lectures.append(lecture)
RECURSIVE lectures_appended(_, _, _)
lectures_appended(courses, items, k) ==
    IF k > Len(items) THEN courses
    ELSE lectures_appended(
             IF schedule_item_skipped(items[k], courses) THEN courses
             ELSE LET n == course_index(courses, items[k][1].lessonId[1], 1)
                  IN  [courses EXCEPT ![n].lectures =
                          Append(@, schedule_lecture(items[k][1], courses[n]))],
             items, k + 1)

\* parsed.result.scheduleList or []
schedule_items(payload) ==
    IF payload.result[1].scheduleList = None THEN << >>
    ELSE payload.result[1].scheduleList[1]

\* The courses before the final loop, which cleans the lectures of each.
schedule_raw(courses, payload) ==
    IF payload.result = None THEN courses
    ELSE lectures_appended(courses, schedule_items(payload), 1)

parse_jw_schedule_table(courses, payload) ==
    IF payload.result = None THEN courses
    ELSE LET raw == schedule_raw(courses, payload)
         IN  [n \in DOMAIN raw |->
                 [raw[n] EXCEPT !.lectures = cleanLectures(@)]]

\* if cache_url: one file per course, cache_dir_from_url(cache_url) / id.json
schedule_cache_files(courses, payload, url) ==
    IF payload.result = None \/ ~Truthy(url) THEN {}
    ELSE {cache_dir_from_url(url[1]) \o "/" \o str(courses[n].id) \o ".json"
             : n \in DOMAIN courses}

\* The inputs of SpecSchedule.
MaxItems == 2
ScheduleTimes == {<<1900, 2000>>, <<2000, 2100>>, <<2000, 1900>>}
SchedulePlaces ==
    {[room |-> Some([nameZh |-> Some("5101")]), customPlace |-> Some("gym")],
     [room |-> None, customPlace |-> Some("gym")],
     [room |-> None, customPlace |-> None]}
CompleteScheduleItems ==
    {[lessonId |-> Some(1), date |-> Some("2024-03-01"),
      startTime |-> Some(t[1]), endTime |-> Some(t[2]),
      room |-> place.room, customPlace |-> place.customPlace,
      personName |-> person, periods |-> Some(2)]
        : t \in ScheduleTimes, place \in SchedulePlaces,
          person \in {None, Some("li")}}
BaseScheduleItem ==
    [lessonId |-> Some(1), date |-> Some("2024-03-01"),
     startTime |-> Some(1900), endTime |-> Some(2000),
     room |-> Some([nameZh |-> Some("5101")]), customPlace |-> None,
     personName |-> Some("li"), periods |-> Some(2)]
LackingScheduleItems ==
    {[BaseScheduleItem EXCEPT !.lessonId = None],
     [BaseScheduleItem EXCEPT !.lessonId = Some(2)],
     [BaseScheduleItem EXCEPT !.lessonId = Some(3)],
     [BaseScheduleItem EXCEPT !.startTime = None],
     [BaseScheduleItem EXCEPT !.endTime = None],
     [BaseScheduleItem EXCEPT !.date = None],
     [BaseScheduleItem EXCEPT !.date = Some("")],
     [BaseScheduleItem EXCEPT !.periods = None],
     [BaseScheduleItem EXCEPT !.room = Some([nameZh |-> None])]}
JwScheduleItems ==
    {None} \cup {Some(it) : it \in CompleteScheduleItems \cup LackingScheduleItems}
SchedulePayloads ==
    {[result |-> None], [result |-> Some([scheduleList |-> None])]}
    \cup {[result |-> Some([scheduleList |-> Some(items)])]
              : items \in UNION {[1..n -> JwScheduleItems] : n \in 0..MaxItems}}
ScheduleCourse(id) == [id |-> id, name |-> "course " \o str(id), lectures |-> << >>]
\* The two callers: the parsing test passes one course and no cache_url,
\* update_lectures passes the chunk of courses and the URL of the request.
ScheduleCalls ==
    {[course_list |-> <<ScheduleCourse(1)>>, cache_url |-> None],
     [course_list |-> <<ScheduleCourse(1), ScheduleCourse(2)>>,
      cache_url |-> Some("https://jw.ustc.edu.cn/ws/schedule-table/datum")],
     [course_list |-> <<ScheduleCourse(3), ScheduleCourse(3)>>,
      cache_url |-> Some("https://jw.ustc.edu.cn/ws/schedule-table/datum")]}

InitSchedule ==
    /\ \E call \in ScheduleCalls :
           course_list = call.course_list /\ cache_url = call.cache_url
    /\ schedulePayload \in SchedulePayloads
    /\ scheduleRaw = << >> /\ scheduleResult = << >> /\ scheduleCached = {}
    /\ LoginIdle /\ IndexIdle /\ LecturesIdle /\ ComposeIdle /\ ExamsIdle
    /\ CurriculumIdle /\ CacheIdle

call_parse_jw_schedule_table ==
    /\ pc = "idle"
    /\ course_list # << >>
    /\ scheduleRaw' = schedule_raw(course_list, schedulePayload)
    /\ scheduleResult' = parse_jw_schedule_table(course_list, schedulePayload)
    /\ scheduleCached' = schedule_cache_files(course_list, schedulePayload, cache_url)
    /\ pc' = "returned"
    /\ UNCHANGED <<sessionVars, indexVars, lectureVars, composeVars, examVars,
                   curriculumVars, cacheVars, course_list, schedulePayload,
                   cache_url>>

NextSchedule == call_parse_jw_schedule_table

SpecSchedule == InitSchedule /\ [][NextSchedule]_vars

\* Either record parser, applied to one payload: a state with a course list
\* is an input of parse_jw_schedule_table, one without of parse_exams.
InitParsers == InitExams \/ InitSchedule
NextParsers ==
    \/ course_list = << >> /\ call_parse_exams
    \/ call_parse_jw_schedule_table
SpecParsers == InitParsers /\ [][NextParsers]_vars

(***************************************************************************)
(* Properties of the login state machine (checked under Spec)              *)
(***************************************************************************)
AttemptEnded == pc = "attempt_end"
LogHas(kind) == \E n \in DOMAIN log : log[n][1] = kind

\* C1: an attempt returns True only after a detection returned DONE, on a page
\* whose URL contains "cas-success", whatever forms the page shows; and a
\* detection (of a turn or of a redetection) returns DONE if and only if the
\* URL of the page contains "cas-success".
C1_SuccessOnlyByUrlMarker ==
    /\ (AttemptEnded /\ outcome.ok) =>
           /\ state = "DONE" \/ redetected_state = "DONE"
           /\ StrIn("cas-success", page.url)
    /\ pc = "dispatch" => (state = "DONE" <=> StrIn("cas-success", page.url))
    /\ pc = "redetected" =>
           (redetected_state = "DONE" <=> StrIn("cas-success", page.url))

\* An attempt succeeded on a page that still shows the credentials form.
C1_Witness ==
    AttemptEnded /\ outcome.ok /\ page.credentials = "present"

\* C2: when the first detection of an attempt gives FILL_CREDENTIALS and the
\* detection after the one action gives DONE, the attempt returns True within
\* 2 turns, with exactly one credentials action and no TOTP action.
C2_FillCredentialsThenDone ==
    (AttemptEnded /\ scenario = "fc_done") =>
        /\ outcome.ok
        /\ turnsRun <= 2
        /\ credActs = 1
        /\ totpActs = 0

\* The scripted attempt ended in its second turn.
C2_Witness == AttemptEnded /\ scenario = "fc_done" /\ turnsRun = 2

\* C3: when every turn of an attempt detects UNKNOWN, the attempt runs exactly
\* state_max_turns turns, issues no action, and returns False.
C3_AllUnknownExhaustsTurns ==
    (AttemptEnded /\ scenario = "unknown") =>
        /\ ~outcome.ok
        /\ turnsRun = login_config.state_max_turns
        /\ credActs = 0
        /\ totpActs = 0

\* An attempt of more than one turn ended with UNKNOWN in every turn.
C3_Witness ==
    AttemptEnded /\ scenario = "unknown" /\ login_config.state_max_turns > 1

\* C4: _login starts at most `attempts` attempts; nothing follows a successful
\* attempt; attempt k + 1 is preceded, in this order, by the failure of attempt
\* k, a wait of min(2000 * k, 10000) ms and a clearing of the cookies; and
\* once attempt `attempts` has failed the run can only raise RuntimeError.
C4_BoundedRetryWithBackoff ==
    /\ Cardinality({n \in DOMAIN log : log[n][1] = "attempt"}) <= login_config.attempts
    /\ \A n \in DOMAIN log :
           log[n][1] = "attempt" => log[n][2] \in 1..login_config.attempts
    /\ \A n \in DOMAIN log : log[n][1] = "success" => n = Len(log)
    /\ \A n \in DOMAIN log :
           (log[n][1] = "attempt" /\ log[n][2] > 1) =>
               /\ n > 3
               /\ log[n - 1] = <<"clear_cookies", log[n][2]>>
               /\ log[n - 2] = <<"wait", IF 2000 * (log[n][2] - 1) < 10000
                                         THEN 2000 * (log[n][2] - 1) ELSE 10000>>
               /\ log[n - 3] = <<"failed", log[n][2] - 1>>
    /\ (\E n \in DOMAIN log : log[n] = <<"failed", login_config.attempts>>) =>
           /\ pc \in {"attempt_end", "login_failed"}
           /\ pc = "login_failed" => log[Len(log)][1] = "RuntimeError"
    /\ pc = "login_failed" =>
           \A k \in 1..login_config.attempts :
               \E n \in DOMAIN log : log[n] = <<"failed", k>>

\* The last attempt of the largest configuration started: the wait before it
\* is the capped one.
C4_Witness == \E n \in DOMAIN log : log[n] = <<"attempt", MaxAttempts>>

\* C5: a request goes through the transport, a follow-up navigation is made
\* and a file is written only after some attempt succeeded; and in a run
\* whose attempts all failed there is no navigation, no RequestSession, no
\* request and no file.
C5_NoFetchWithoutLogin ==
    /\ (requests # << >> \/ navs # << >> \/ written # {}) => LogHas("success")
    /\ pc \in {"session", "save_semesters", "fetch_semester", "done"} =>
           LogHas("success")
    /\ LogHas("RuntimeError") =>
           /\ pc = "login_failed"
           /\ navs = << >> /\ requests = << >> /\ written = {}

\* Every one of several attempts failed and _login raised.
C5_Witness == pc = "login_failed" /\ login_config.attempts > 1

(***************************************************************************)
(* Properties of findNearestIndex (checked under SpecIndex)                *)
(***************************************************************************)
\* time is equally far from the entries a < b of the table, and no entry is nearer.
TieAt(time, times, a, b) ==
    /\ a < b
    /\ abs(time - times[a]) = abs(time - times[b])
    /\ \A k \in 1..Len(times) : abs(time - times[k]) >= abs(time - times[a])

C7_NearestIndex ==
    pc = "returned" =>
        LET times == TableOf(fnTable) IN
        /\ fnResult \in 1..13
        /\ \A k \in 1..13 :
               abs(fnTime - times[fnResult]) <= abs(fnTime - times[k])
        /\ \A k \in 1..13 : times[k] = fnTime => fnResult = k

\* findNearestIndex returned for an input that is an entry of the table.
C7_Witness ==
    /\ pc = "returned"
    /\ \E k \in 1..13 : TableOf(fnTable)[k] = fnTime /\ fnResult = k

(***************************************************************************)
(* Properties of cleanLectures (checked under SpecLectures)                *)
(***************************************************************************)
\* The values of vs in order, each once.
RECURSIVE Unique(_)
Unique(vs) ==
    IF Len(vs) = 0 THEN << >>
    ELSE LET head == Unique(SubSeq(vs, 1, Len(vs) - 1))
             v == vs[Len(vs)]
         IN  IF \E n \in DOMAIN head : head[n] = v THEN head ELSE Append(head, v)

RECURSIVE JoinComma(_)
JoinComma(vs) ==
    IF Len(vs) = 0 THEN ""
    ELSE IF Len(vs) = 1 THEN vs[1]
    ELSE JoinComma(SubSeq(vs, 1, Len(vs) - 1)) \o "," \o vs[Len(vs)]

\* The raw lectures with the interval of raw lecture a, in input order.
RECURSIVE SameInterval(_, _)
SameInterval(a, k) ==
    IF k > Len(rawLectures) THEN << >>
    ELSE (IF /\ rawLectures[k].startDate = rawLectures[a].startDate
             /\ rawLectures[k].endDate = rawLectures[a].endDate
          THEN <<rawLectures[k]>> ELSE << >>) \o SameInterval(a, k + 1)

TeacherNames(ls) == [n \in DOMAIN ls |-> ls[n].teacherName]
Locations(ls) == [n \in DOMAIN ls |-> ls[n].location]

\* C8, as claimed: when two raw lectures have the same startDate and endDate
\* and differ in teacherName or location, the output holds exactly one entry
\* with that interval, and its teacherName and location are the comma-joined
\* values of the raw lectures of that interval, in input order, each once.
C8_SameIntervalUnion ==
    pc = "returned" =>
        \A a, b \in DOMAIN rawLectures :
            ( /\ a < b
              /\ rawLectures[a].startDate = rawLectures[b].startDate
              /\ rawLectures[a].endDate = rawLectures[b].endDate
              /\ \/ rawLectures[a].teacherName # rawLectures[b].teacherName
                 \/ rawLectures[a].location # rawLectures[b].location ) =>
            LET same == SameInterval(a, 1)
                hits == {n \in DOMAIN cleaned :
                            /\ cleaned[n].startDate = rawLectures[a].startDate
                            /\ cleaned[n].endDate = rawLectures[a].endDate}
            IN  /\ Cardinality(hits) = 1
                /\ \A n \in hits :
                       /\ cleaned[n].teacherName = JoinComma(Unique(TeacherNames(same)))
                       /\ cleaned[n].location = JoinComma(Unique(Locations(same)))

\* C9: for two raw lectures of which one ends when the other starts, in
\* either order, the output is one entry from the start of the earlier to the
\* end of the later, with the startIndex of the earlier and the endIndex of
\* the later.
C9_AdjacentPairMerges ==
    (pc = "returned" /\ Len(rawLectures) = 2) =>
        \A a, b \in 1..2 :
            (a # b /\ rawLectures[a].endDate = rawLectures[b].startDate) =>
                /\ Len(cleaned) = 1
                /\ cleaned[1].startDate = rawLectures[a].startDate
                /\ cleaned[1].endDate = rawLectures[b].endDate
                /\ cleaned[1].startIndex = rawLectures[a].startIndex
                /\ cleaned[1].endIndex = rawLectures[b].endIndex

\* The later slot came first in the input, and both slots have a duration.
C9_Witness ==
    /\ pc = "returned" /\ Len(rawLectures) = 2
    /\ rawLectures[2].endDate = rawLectures[1].startDate
    /\ rawLectures[1].startDate < rawLectures[1].endDate
    /\ rawLectures[2].startDate < rawLectures[2].endDate
    /\ Len(cleaned) = 1

(***************************************************************************)
(* Properties of compose_start_end (checked under SpecCompose)             *)
(***************************************************************************)
\* Midnight in Asia/Shanghai of the dates of SpecCompose, in epoch seconds.
ShanghaiMidnight(date_str) ==
    CASE date_str = "2021-08-10" -> 1628524800
      [] date_str = "2024-02-29" -> 1709136000
      [] date_str = "2024-03-01" -> 1709222400
      [] date_str = "2026-01-01" -> 1767196800

\* C10: each component of the result is midnight(date) + 3600 * (h div 100)
\* + 60 * (h mod 100), with midnight(date) the Asia/Shanghai midnight of the
\* date, and the result is the same on machines of different local zones.
C10_ComposeZoneFixed ==
    pc = "returned" =>
        /\ cResultA[1] = ShanghaiMidnight(cDate)
                         + 3600 * (cStart \div 100) + 60 * (cStart % 100)
        /\ cResultA[2] = ShanghaiMidnight(cDate)
                         + 3600 * (cEnd \div 100) + 60 * (cEnd % 100)
        /\ cResultB = cResultA

\* "2021-08-10" composed with 0835 on two machines of different local zones.
C10_Witness ==
    /\ pc = "returned"
    /\ cDate = "2021-08-10" /\ cStart = 835
    /\ cEnvA # cEnvB

(***************************************************************************)
(* Properties of parse_exams (checked under SpecExams)                     *)
(***************************************************************************)
\* The item has every field the loop requires: a non-empty date, both
\* times, a lesson with a course and an id.
ExamItemComplete(item) ==
    /\ item # None
    /\ item[1].examDate # None /\ item[1].examDate # Some("")
    /\ item[1].startTime # None /\ item[1].endTime # None
    /\ item[1].lesson # None
    /\ item[1].lesson[1].course # None
    /\ item[1].lesson[1].id # None

\* The complete items of the payload that belong to the lesson id, in order.
ExamItemsOf(id) ==
    LET Mine(item) == ExamItemComplete(item) /\ item[1].lesson[1].id = Some(id)
    IN  SelectSeq(examPayload, Mine)

ExamLessonIds == {1, 2}

\* C11: parse_exams returns, and the exam built from an item has the
\* midterm label when the item's examType is 1, the final label when it is
\* 2, and "Unknown" for every other value, a missing examType included.
C11_ExamTypeLabel ==
    pc = "returned" =>
        \A id \in ExamLessonIds :
            LET its == ExamItemsOf(id) IN
            \A n \in DOMAIN its :
                /\ id \in DOMAIN examResult
                /\ n \in DOMAIN examResult[id]
                /\ examResult[id][n].examType =
                       CASE its[n][1].examType = Some(1) -> MidtermLabel
                         [] its[n][1].examType = Some(2) -> FinalLabel
                         [] OTHER -> "Unknown"

\* parse_exams returned for a payload with an item of no examType and an
\* item of examType 3.
C11_Witness ==
    /\ pc = "returned"
    /\ \E a, b \in DOMAIN examPayload :
           /\ ExamItemComplete(examPayload[a]) /\ ExamItemComplete(examPayload[b])
           /\ examPayload[a][1].examType = None
           /\ examPayload[b][1].examType = Some(3)
    /\ \E id \in DOMAIN examResult :
           \E n \in DOMAIN examResult[id] : examResult[id][n].examType = "Unknown"

(***************************************************************************)
(* Properties of make_curriculum (checked under SpecCurriculum)            *)
(***************************************************************************)
\* Some directory or file of the semester id exists.
SemesterOutput(id) ==
    \/ semester_path(id) \in dirs
    \/ \E path \in written : StrIn(semester_path(id) \o "/", path)
    \/ \E path \in DOMAIN saved : StrIn(semester_path(id) \o "/", path)

\* C12: for a semester of the list whose id is below 401 there is, at any
\* point of the run, no request for its courses, its exams or its lectures,
\* and no directory or file of it.
C12_BelowFloorUntouched ==
    \A n \in DOMAIN semesters :
        (semesters[n] # "" /\ int(semesters[n]) < 401) =>
            /\ \A r \in DOMAIN requests : requests[r][2] # semesters[n]
            /\ ~SemesterOutput(semesters[n])

\* The run ended with output for a semester at the floor, and the list also
\* held a semester below it.
C12_Witness ==
    /\ pc = "done"
    /\ \E n \in DOMAIN semesters : semesters[n] = "400"
    /\ SemesterOutput("401")
    /\ saved # << >>

\* The semester id is processed once.
Once(id) == Cardinality({n \in DOMAIN todo : todo[n] = id}) = 1
Raised(kind, id) == \E e \in DOMAIN events : events[e] = <<kind, id>>
Requested(kind, id) == \E r \in DOMAIN requests : requests[r] = <<kind, id>>

\* C13: a run is left only by an exception of get_semesters, of the semester
\* filter or of update_lectures, never by one of get_courses or get_exams;
\* a run that ends has requested the courses of every semester of the list,
\* whatever failed before; a semester whose get_courses raised has no file,
\* no exams request and no lectures request; a semester whose get_exams
\* raised has its courses.json, its course files are written without exams,
\* and when the run ends its lectures were requested unless it has no course.
C13_SemesterFailuresAreLocal ==
    /\ pc = "error" =>
           events[Len(events)][1] \in {"get_semesters", "int", "update_lectures"}
    /\ pc = "done" =>
           Cardinality({r \in DOMAIN requests : requests[r][1] = "courses"})
               = Len(todo)
    /\ \A n \in DOMAIN todo :
           (Once(todo[n]) /\ Raised("get_courses", todo[n])) =>
               /\ ~Requested("exams", todo[n])
               /\ ~Requested("lectures", todo[n])
               /\ \A path \in written \cup DOMAIN saved :
                      ~StrIn(semester_path(todo[n]) \o "/", path)
    /\ \A n \in DOMAIN todo :
           (Once(todo[n]) /\ Raised("get_exams", todo[n])) =>
               /\ semester_path(todo[n]) \o "/courses.json" \in written
               /\ \A path \in DOMAIN saved :
                      StrIn(semester_path(todo[n]) \o "/", path) =>
                          saved[path].exams = << >>
               /\ pc = "done" =>
                      \/ Raised("no_chunks", todo[n])
                      \/ /\ Requested("lectures", todo[n])
                         /\ \E path \in DOMAIN saved :
                                StrIn(semester_path(todo[n]) \o "/", path)

\* The run ended; the courses of the first semester failed, the exams of the
\* second failed and its courses were written.
C13_Witness ==
    /\ pc = "done"
    /\ Len(todo) >= 2 /\ todo[1] # todo[2]
    /\ Raised("get_courses", todo[1])
    /\ Raised("get_exams", todo[2])
    /\ Requested("lectures", todo[2])

(***************************************************************************)
(* Properties of get_json and the cache (checked under SpecCache)          *)
(***************************************************************************)
\* json.loads of the text of a list of integers.
RECURSIVE LoadItems(_)
LoadItems(parts) ==
    IF Len(parts) = 0 THEN << >>
    ELSE <<ParseDigits(IF SubSeq(Head(parts), 1, 1) = " "
                       THEN SubSeq(Head(parts), 2, Len(Head(parts)))
                       ELSE Head(parts))>> \o LoadItems(Tail(parts))
loads(text) ==
    IF text = "[]" THEN << >>
    ELSE LoadItems(Split(SubSeq(text, 2, Len(text) - 1), ","))

\* At the cache path of url there is a regular file that holds body.
Cached(url, body) ==
    /\ cache_path(url) \in DOMAIN cacheFs
    /\ cacheFs[cache_path(url)].kind = "file"
    /\ loads(cacheFs[cache_path(url)].content) = body

\* C14: once get_json has saved, and so when it returns its body, the cache
\* path of the URL holds a regular file whose content is that body, whatever
\* was at the path before: a file or a symlink is replaced, and the target
\* of a replaced symlink is left as it was.
C14_GetJsonPersistsBody ==
    /\ pc \in {"saved", "returned"} => Cached(cacheUrl, cacheBody[1])
    /\ pc = "returned" => cacheFetched[cacheUrl] = cacheBody[1]
    /\ cacheFs[StaticFile] = RegularFile("[0]")

\* get_json returned a body of two items for a URL whose cache path was a
\* symlink.
C14_Witness ==
    /\ pc = "returned"
    /\ cacheBefore = "symlink"
    /\ cacheBody = Some(<<7, 12>>)

ValueOrEmpty(opt) == IF opt = None THEN "" ELSE opt[1]

\* The schedule item has a lesson id, both times and a non-empty date.
ScheduleItemComplete(item) ==
    /\ item # None
    /\ item[1].lessonId # None
    /\ item[1].startTime # None /\ item[1].endTime # None
    /\ item[1].date # None /\ item[1].date # Some("")

\* The complete items of the payload whose lesson id is id, in order.
ScheduleItemsOf(id) ==
    LET Mine(item) == ScheduleItemComplete(item) /\ item[1].lessonId = Some(id)
    IN  IF schedulePayload.result[1].scheduleList = None THEN << >>
        ELSE SelectSeq(schedulePayload.result[1].scheduleList[1], Mine)

\* The items that the c-th listed course receives: those of its id when no
\* earlier course of the list has the same id, none otherwise.
ScheduleItemsFor(c) ==
    IF \E d \in 1..(c - 1) : course_list[d].id = course_list[c].id THEN << >>
    ELSE ScheduleItemsOf(course_list[c].id)

C18_LectureStartBeforeEnd ==
    pc = "returned" =>
        /\ \A c \in DOMAIN scheduleRaw :
               \A n \in DOMAIN scheduleRaw[c].lectures :
                   scheduleRaw[c].lectures[n].startDate
                       <= scheduleRaw[c].lectures[n].endDate
        /\ \A c \in DOMAIN scheduleResult :
               \A n \in DOMAIN scheduleResult[c].lectures :
                   scheduleResult[c].lectures[n].startDate
                       <= scheduleResult[c].lectures[n].endDate

(***************************************************************************)
(* Properties of the configuration errors and of the state detection       *)
(* (checked under Spec)                                                    *)
(***************************************************************************)
\* C17, as claimed: when a configuration error is raised (the credentials
\* are missing, or the TOTP secret is missing and the second factor is
\* demanded), no attempt has begun: the login page has not been opened,
\* no turn has run and nothing has been requested.
C17_ConfigErrorsBeforeNetwork ==
    /\ pc = "config_error" =>
           log = << >> /\ turnsRun = 0 /\ navs = << >> /\ requests = << >>
    /\ actError = TotpUnsetError =>
           log = << >> /\ turnsRun = 0 /\ navs = << >> /\ requests = << >>

\* A detection has just run on `page`; Detected is what it returned.
JustDetected == pc \in {"dispatch", "redetected"}
Detected == IF pc = "dispatch" THEN state ELSE redetected_state
HasMarker == StrIn("cas-success", page.url)

\* C19: the detection returns DONE whenever the URL has the marker,
\* FILL_CREDENTIALS whenever the marker is absent and the credentials form
\* is present (the second-factor tab present or not), FILL_TOTP exactly when
\* the marker and the credentials form are absent and the tab is present,
\* and UNKNOWN when nothing matches.
C19_DetectionPriority ==
    JustDetected =>
        /\ HasMarker => Detected = "DONE"
        /\ (~HasMarker /\ page.credentials = "present") =>
               Detected = "FILL_CREDENTIALS"
        /\ Detected = "FILL_TOTP" <=>
               (~HasMarker /\ page.credentials # "present"
                   /\ page.totp_tab = "present")
        /\ (~HasMarker /\ page.credentials # "present"
               /\ page.totp_tab # "present") => Detected = "UNKNOWN"

\* A turn detected FILL_CREDENTIALS on a page that shows both the
\* credentials form and the second-factor tab.
C19_Witness ==
    /\ pc = "dispatch" /\ ~HasMarker
    /\ page.credentials = "present" /\ page.totp_tab = "present"
    /\ state = "FILL_CREDENTIALS"

\* A probe of the detection that has just run threw.
ProbeThrew == page.credentials = "throws" \/ page.totp_tab = "throws"

\* C20: a detector whose probe throws has not matched: its state is not
\* detected, the next detector still decides (the tab is detected after the
\* credentials probe threw) and UNKNOWN results when no other detector
\* matches.  A turn ends the attempt before its dispatch only when its
\* settle wait raised, never in the detection, and a turn whose detection
\* threw and gave UNKNOWN goes on to the next turn, or ends the loop when it
\* was the last turn.
C20_ThrowingDetectorNotMatched ==
    /\ [](JustDetected =>
            /\ page.credentials = "throws" => Detected # "FILL_CREDENTIALS"
            /\ page.totp_tab = "throws" => Detected # "FILL_TOTP"
            /\ (~HasMarker /\ page.credentials = "throws"
                   /\ page.totp_tab = "present") => Detected = "FILL_TOTP"
            /\ (~HasMarker /\ ProbeThrew /\ page.credentials # "present"
                   /\ page.totp_tab # "present") => Detected = "UNKNOWN")
    /\ [][/\ (pc = "turn" /\ pc' # "dispatch") =>
                (login_config.turn_wait_ms > 0 /\ outcome'.how = "raised")
          /\ (pc = "dispatch" /\ ProbeThrew /\ state = "UNKNOWN") =>
                \/ pc' = "turn" /\ i' = i + 1
                \/ /\ i = login_config.state_max_turns
                   /\ outcome'.how = "turns_exhausted"]_vars

\* In the first of two turns both probes threw and the detection gave
\* UNKNOWN.
C20_Witness ==
    /\ pc = "dispatch" /\ i = 1 /\ login_config.state_max_turns = 2
    /\ ~HasMarker
    /\ page.credentials = "throws" /\ page.totp_tab = "throws"
    /\ state = "UNKNOWN"

(***************************************************************************)
(* Properties of the error handling of a turn and of _after_login          *)
(* (checked under Spec)                                                    *)
(***************************************************************************)
\* The exception is timeout-class: its class name or its message contains
\* "timeout", whatever the case of the letters.
TimeoutClass(e) ==
    \/ \E k \in 0..(Len(e.class_name) - 7) :
           lower(SubSeq(e.class_name, k + 1, k + 7)) = "timeout"
    \/ \E k \in 0..(Len(e.message) - 7) :
           lower(SubSeq(e.message, k + 1, k + 7)) = "timeout"

\* The loop of the turns goes on after turn i: the next turn begins, or turn
\* i was the last one and the attempt ends for lack of turns.
LoopGoesOn ==
    \/ pc' = "turn" /\ i' = i + 1
    \/ /\ i = login_config.state_max_turns
       /\ pc' = "attempt_end" /\ outcome'.how = "turns_exhausted"

\* C21: an action that raises a timeout-class error starts the redetection;
\* the redetection runs at most state_redetect_attempts rounds and stops at
\* the first result other than UNKNOWN; DONE makes the attempt succeed, a
\* known state other than the one that timed out lets the loop of the turns
\* go on, and UNKNOWN in every round ends the attempt as failed without
\* another turn.
C21_TimeoutRedetection ==
    /\ [](redetect_i <= login_config.state_redetect_attempts)
    /\ [][/\ (pc = "dispatch" /\ actError' # NoError /\ TimeoutClass(actError')) =>
                (pc' = "redetect" /\ redetect_i' = 1)
          /\ pc = "redetected" =>
                /\ redetected_state # "UNKNOWN" => pc' # "redetect"
                /\ (redetected_state = "UNKNOWN"
                      /\ redetect_i < login_config.state_redetect_attempts) =>
                       (pc' = "redetect" /\ redetect_i' = redetect_i + 1)
                /\ redetected_state = "DONE" =>
                       (pc' = "attempt_end" /\ outcome'.ok)
                /\ (redetected_state \in {"FILL_CREDENTIALS", "FILL_TOTP"}
                      /\ redetected_state # state) => LoopGoesOn
                /\ (redetected_state = "UNKNOWN"
                      /\ redetect_i = login_config.state_redetect_attempts) =>
                       (pc' = "attempt_end" /\ ~outcome'.ok /\ i' = i
                          /\ outcome'.how = "timeout_fallback")]_vars

\* Two rounds of redetection both gave UNKNOWN and the attempt was abandoned.
C21_Witness ==
    /\ pc = "attempt_end" /\ outcome = [ok |-> FALSE, how |-> "timeout_fallback"]
    /\ redetect_i = 2 /\ login_config.state_redetect_attempts = 2
    /\ redetected_state = "UNKNOWN"

\* C22, as claimed: a timeout-class error raised by the settle wait of a
\* turn or by the wait of a redetection round never ends the attempt
\* directly (it starts the redetection instead).
C22_WaitTimeoutRedetects ==
    (pc = "attempt_end" /\ outcome.how = "raised") => ~TimeoutClass(actError)

\* C23: an action that raises an error that is not timeout-class ends the
\* attempt at once as failed, in the turn of the action and without a
\* redetection.
C23_OtherErrorFailsAttempt ==
    [][(pc = "dispatch" /\ actError' # NoError /\ ~TimeoutClass(actError')) =>
          /\ pc' = "attempt_end" /\ ~outcome'.ok /\ outcome'.how = "act_error"
          /\ i' = i /\ redetect_i' = redetect_i /\ turnsRun' = turnsRun]_vars

\* The credentials action of the first turn raised "Target page has been
\* closed" and the attempt has ended as failed after that one action.
C23_Witness ==
    /\ pc = "attempt_end" /\ outcome = [ok |-> FALSE, how |-> "act_error"]
    /\ actError.message = "Target page has been closed"
    /\ i = 1 /\ credActs = 1 /\ totpActs = 0 /\ redetect_i = 0

C25_AfterLoginNavigations ==
    /\ [](/\ pc = "after_login" =>
              (navs = << >> /\ log[Len(log)] = <<"success", attempt>>)
          /\ pc = "after_login_jw" => navs = <<"catalog">>
          /\ (pc = "session" \/ requests # << >>) => navs = <<"catalog", "jw">>
          /\ Len(navs) <= 2)
    /\ [][/\ (pc \in {"after_login", "after_login_jw"} /\ pc' # "error") =>
                pc' = (IF pc = "after_login" THEN "after_login_jw" ELSE "session")
          /\ pc \in {"after_login", "after_login_jw"} =>
                (log' = log /\ attempt' = attempt /\ requests' = requests)
          /\ pc = "error" => pc' = "error"]_vars

\* The navigation to the timetable portal raised with attempts left.
C25_Witness ==
    /\ pc = "error" /\ navs = <<"catalog", "jw">>
    /\ attempt = 1 /\ login_config.attempts = 3
    /\ log = << <<"attempt", 1>>, <<"success", 1>> >>

(***************************************************************************)
(* Properties of the pass of cleanLectures (checked under SpecLectures)    *)
(***************************************************************************)
\* The lecture l meets the entry r in one of the three cases: l lies inside
\* r, l ends when r starts, or l starts when r ends.
Meets(l, r) ==
    \/ (l.startDate >= r.startDate /\ l.endDate <= r.endDate)
    \/ l.endDate = r.startDate
    \/ l.startDate = r.endDate

\* C26: for three raw lectures of which the second does not meet the first,
\* the third is matched against the entries in order and only the first
\* entry it meets changes: when it meets the first entry the second entry
\* is the second raw lecture as it was; an entry that was extended is not
\* compared with the other entry, so when the third lecture starts at the
\* end of the first and ends at the start of the second, the output has
\* two entries, the first ending where the second starts.
C26_SinglePassFirstMatch ==
    (/\ pc = "returned" /\ Len(rawLectures) = 3
     /\ ~Meets(rawLectures[2], rawLectures[1])) =>
        /\ Len(cleaned) >= 2
        /\ cleaned[1].startHHMM = rawLectures[1].startHHMM
        /\ Meets(rawLectures[3], rawLectures[1]) =>
               (Len(cleaned) = 2 /\ cleaned[2] = rawLectures[2])
        /\ (~Meets(rawLectures[3], rawLectures[1])
               /\ Meets(rawLectures[3], rawLectures[2])) =>
               (Len(cleaned) = 2 /\ cleaned[1] = rawLectures[1])
        /\ (/\ rawLectures[1].startDate < rawLectures[1].endDate
            /\ rawLectures[3].startDate = rawLectures[1].endDate
            /\ rawLectures[3].startDate < rawLectures[3].endDate
            /\ rawLectures[3].endDate = rawLectures[2].startDate) =>
               /\ cleaned[1].startDate = rawLectures[1].startDate
               /\ cleaned[1].endDate = rawLectures[3].endDate
               /\ cleaned[1].endDate = cleaned[2].startDate

\* The slots 19:00-20:00, 21:00-22:00, 20:00-21:00 gave the two entries
\* 19:00-21:00 and 21:00-22:00.
C26_Witness ==
    /\ pc = "returned" /\ Len(rawLectures) = 3
    /\ rawLectures[1].startHHMM = 1900 /\ rawLectures[1].endHHMM = 2000
    /\ rawLectures[2].startHHMM = 2100 /\ rawLectures[2].endHHMM = 2200
    /\ rawLectures[3].startHHMM = 2000 /\ rawLectures[3].endHHMM = 2100
    /\ Len(cleaned) = 2
    /\ cleaned[1].startDate = rawLectures[1].startDate
    /\ cleaned[1].endDate = rawLectures[2].startDate
    /\ cleaned[2].startDate = rawLectures[2].startDate
    /\ cleaned[2].endDate = rawLectures[2].endDate

(***************************************************************************)
(* Properties of the lecture batches and of the delays (checked under      *)
(* SpecBatches)                                                            *)
(***************************************************************************)
\* C27: the chunks of a semester with n courses are consecutive slices of
\* 1 to 50 positions, the first starting at 0, each starting where the one
\* before ends, the last ending at n, so that no two chunks (in flight or
\* not) share a course and every course is in a chunk; each chunk has one
\* task, and at most 50 tasks hold the limiter.
C27_BatchesDisjointAndLimited ==
    batch_of > 0 =>
        LET n == course_totals[batch_of] IN
        /\ n = 0 <=> chunks = << >>
        /\ \A k \in DOMAIN chunks :
               /\ chunks[k][2] - chunks[k][1] >= 1
               /\ chunks[k][2] - chunks[k][1] <= 50
               /\ chunks[k][1] = (IF k = 1 THEN 0 ELSE chunks[k - 1][2])
               /\ k = Len(chunks) => chunks[k][2] = n
        /\ \A a, b \in DOMAIN chunks : a < b => chunks[a][2] <= chunks[b][1]
        /\ tasks.waiting + tasks.holding + tasks.done = Len(chunks)
        /\ tasks.holding <= 50
        /\ tasks.holding + sem_value = 50

\* Fifty tasks hold the limiter, one has finished and the last one waits.
C27_Witness ==
    /\ pc = "gather" /\ Len(chunks) = 52
    /\ tasks.holding = 50 /\ tasks.done = 1 /\ tasks.waiting = 1
    /\ sem_value = 0

\* C28: the semesters are fetched one after another in the order of the
\* list; while the courses or the exams of a semester are fetched, and when
\* the run is done, no task of an earlier semester waits or is in flight
\* and the files of all the courses of the semester fetched before are
\* written.
C28_SemestersInSequence ==
    /\ []((pc \in {"next_semester", "exams", "done"} /\ batch_of > 0) =>
             /\ batch_of < batch_k
             /\ tasks.waiting = 0 /\ tasks.holding = 0
             /\ tasks.done = Len(chunks)
             /\ saved_count = course_totals[batch_of])
    /\ [][/\ batch_k' \in {batch_k, batch_k + 1}
          /\ batch_of' # batch_of => (batch_of' = batch_k /\ batch_of < batch_k)]_vars

\* The exams of the second semester are about to be fetched; the first
\* semester had 52 chunks, whose 2551 courses are all written.
C28_Witness ==
    /\ pc = "exams" /\ batch_k = 2 /\ batch_of = 1
    /\ Len(chunks) = 52 /\ tasks.done = 52 /\ saved_count = 2551

\* C29, as claimed: every request of the run comes directly after a sleep.
C29_DelayBeforeEveryFetch ==
    \A k \in DOMAIN netlog :
        netlog[k][1] = "fetch" => (k > 1 /\ netlog[k - 1][1] = "sleep")

(***************************************************************************)
(* Properties of an interrupted save_json (checked under SpecSave)         *)
(***************************************************************************)
\* C30, as claimed: when the process is interrupted during save_json, the
\* path holds the complete text it held before or the complete new text: it
\* is not missing when it existed before, and it is never partly written.
C30_SaveIsAtomic ==
    pc = "interrupted" =>
        LET path == cache_path(cacheUrl) IN
        IF path \in DOMAIN cacheFs
        THEN \/ cacheFs[path].kind = "file"
                /\ cacheFs[path].content \in {OldText, dump(cacheBody[1])}
             \/ cacheFs[path].kind = "symlink"
                /\ cacheFs[cacheFs[path].target].content
                      \in {OldText, dump(cacheBody[1])}
        ELSE cacheBefore = "nothing"

(***************************************************************************)
(* Properties of the attach step (checked under SpecAttach)                *)
(***************************************************************************)
\* The exams a course holds were built from these items, in this order.
MadeFrom(exams, items) ==
    /\ Len(exams) = Len(items)
    /\ \A k \in DOMAIN items :
           /\ exams[k].name = ValueOrEmpty(items[k][1].lesson[1].course[1].cn)
           /\ exams[k].examMode = ValueOrEmpty(items[k][1].examMode)
           /\ exams[k].startHHMM = items[k][1].startTime[1]
           /\ exams[k].examType =
                  (CASE items[k][1].examType = Some(1) -> MidtermLabel
                     [] items[k][1].examType = Some(2) -> FinalLabel
                     [] OTHER -> "Unknown")
           /\ (exams[k].location = "") = (room_list(IF items[k][1].examRooms = None
                                                   THEN << >>
                                                   ELSE items[k][1].examRooms[1]) = << >>)

\* C31: after the attach step every course holds the exams of the items
\* whose lesson id is the course's id, in the order of the payload (none
\* when get_exams raised): a course without such an item has no exams, and
\* no course holds an exam of another lesson id.
C31_ExamsAttachedById ==
    pc = "attached" =>
        \A n \in DOMAIN incomplete_courses :
            IF examResult = EmptyDict
            THEN incomplete_courses[n].exams = << >>
            ELSE MadeFrom(incomplete_courses[n].exams,
                          ExamItemsOf(incomplete_courses[n].id))

\* The payload has an exam of lesson 1 and one of lesson 2 that differ; the
\* course 3 got none and the course 1 got the exam of lesson 1.
C31_Witness ==
    /\ pc = "attached" /\ Len(incomplete_courses) = 2
    /\ incomplete_courses[1].id = 3 /\ incomplete_courses[1].exams = << >>
    /\ incomplete_courses[2].id = 1 /\ Len(incomplete_courses[2].exams) = 1
    /\ Len(ExamItemsOf(1)) = 1 /\ Len(ExamItemsOf(2)) = 1
    /\ ExamItemsOf(1)[1][1].examType = Some(1)
    /\ ExamItemsOf(2)[1][1].examType = Some(2)
    /\ incomplete_courses[2].exams[1].examType = MidtermLabel

\* C32: after parse_jw_schedule_table every lecture of a listed course comes
\* from schedule items whose lessonId is the id of that course (it carries
\* the name of the course, and its start and end are those of such items),
\* and every schedule item yields a lecture for at most one course of the
\* list: the appended lectures are as many as the items that belong to a
\* listed course, and of two courses with one id only the first gets any.
C32_LecturesOfOwnItemsOnly ==
    (pc = "returned" /\ course_list # << >> /\ schedulePayload.result # None) =>
        /\ \A c \in DOMAIN course_list :
               LET its == ScheduleItemsOf(course_list[c].id)
                   raw == scheduleRaw[c].lectures
               IN  /\ Len(raw) <= Len(its)
                   /\ \A n \in DOMAIN raw :
                          /\ raw[n].name = course_list[c].name
                          /\ \E k \in DOMAIN its :
                                 /\ raw[n].startHHMM = its[k][1].startTime[1]
                                 /\ raw[n].endHHMM = its[k][1].endTime[1]
                   /\ \A n \in DOMAIN scheduleResult[c].lectures :
                          LET l == scheduleResult[c].lectures[n] IN
                          /\ l.name = course_list[c].name
                          /\ \E m \in DOMAIN raw : l.startDate = raw[m].startDate
                          /\ \E m \in DOMAIN raw : l.endDate = raw[m].endDate
        /\ \A c, d \in DOMAIN course_list :
               (c < d /\ course_list[c].id = course_list[d].id) =>
                   scheduleRaw[d].lectures = << >>

\* Two courses share the id 3 and the payload has an item of lesson 3: the
\* first course got its lecture and the second none.
C32_Witness ==
    /\ pc = "returned" /\ Len(course_list) = 2
    /\ course_list[1].id = 3 /\ course_list[2].id = 3
    /\ schedulePayload.result # None
    /\ Len(ScheduleItemsOf(3)) = 1
    /\ Len(scheduleResult[1].lectures) = 1
    /\ scheduleResult[2].lectures = << >>

\* C33: a semester whose id is missing, "" after parse_semesters, does not
\* make make_curriculum raise: the run never ends with the ValueError of
\* int("").
C33_MissingSemesterIdTolerated ==
    (\E n \in DOMAIN semesters : semesters[n] = "") =>
        ~(/\ pc = "error"
          /\ events # << >>
          /\ events[Len(events)] = <<"int", "">>)

\* The attempts, turns and actions of _login stay within the configuration.
LoginWithinBounds ==
    /\ attempt <= login_config.attempts
    /\ pc \in {"login_loop", "goto", "turn", "dispatch", "redetect", "redetected",
               "attempt_end", "login_failed"} => attempt >= 1
    /\ i <= login_config.state_max_turns
    /\ turnsRun <= login_config.state_max_turns
    /\ credActs + totpActs <= login_config.state_max_turns

\* _login has been left by an exception of clear_cookies or of the retry wait.
LoginLeftByBrowserError ==
    /\ pc = "error" /\ log # << >>
    /\ log[Len(log)][1] \in {"clear_cookies", "wait"}

\* C34: _login runs between 1 and attempts attempts, each of at most
\* state_max_turns turns and actions, and it ends with success or with
\* RuntimeError: no other exception leaves it.
C34_LoginBoundedAndEndsTwoWays ==
    LoginWithinBounds /\ ~LoginLeftByBrowserError

\* C35: when the redetection after a timed-out action reports the state
\* whose action timed out, the attempt ends as failed, with no further
\* turn, and goes back to _login; after a redetection the loop of the turns
\* goes on only when the redetected state is known and differs from it.
C35_SameStateFailsAttempt ==
    [][pc = "redetected" =>
          /\ (redetected_state # "UNKNOWN" /\ redetected_state = state) =>
                 /\ pc' = "attempt_end" /\ ~outcome'.ok
                 /\ outcome'.how = "timeout_fallback"
                 /\ i' = i /\ turnsRun' = turnsRun
          /\ LoopGoesOn =>
                 /\ redetected_state \in {"FILL_CREDENTIALS", "FILL_TOTP"}
                 /\ redetected_state # state]_vars

\* The action of the TOTP step timed out, the redetection found the TOTP
\* step again, and the attempt was handed back as failed.
C35_Witness ==
    /\ pc = "attempt_end" /\ outcome = [ok |-> FALSE, how |-> "timeout_fallback"]
    /\ state = "FILL_TOTP" /\ redetected_state = "FILL_TOTP"
    /\ actError # NoError /\ TimeoutClass(actError)

\* The entry c equals the lecture r in every field but those of changed.
SameBut(c, r, changed) ==
    /\ DOMAIN c = DOMAIN r
    /\ \A f \in DOMAIN r \ changed : c[f] = r[f]

\* C36: when the second of two raw lectures is merged into the first, the
\* entry differs from the first lecture in teacherName and location only
\* for a containment, in startDate and startIndex only for a backward
\* extension, in endDate and endIndex only for a forward extension; and for
\* any input every output entry has the startHHMM, endHHMM, periods and
\* name of one raw lecture.
C36_MergeChangesOnlyItsFields ==
    pc = "returned" =>
        /\ \A n \in DOMAIN cleaned : \E m \in DOMAIN rawLectures :
               SameBut(cleaned[n], rawLectures[m],
                       {"startDate", "startIndex", "endDate", "endIndex",
                        "teacherName", "location"})
        /\ (Len(rawLectures) = 2 /\ Len(cleaned) = 1) =>
               LET r == rawLectures[1]
                   l == rawLectures[2]
                   inside == l.startDate >= r.startDate /\ l.endDate <= r.endDate
               IN  /\ inside =>
                          SameBut(cleaned[1], r, {"teacherName", "location"})
                   /\ (~inside /\ l.endDate = r.startDate) =>
                          /\ SameBut(cleaned[1], r, {"startDate", "startIndex"})
                          /\ cleaned[1].startDate = l.startDate
                   /\ (~inside /\ l.endDate # r.startDate) =>
                          /\ SameBut(cleaned[1], r, {"endDate", "endIndex"})
                          /\ cleaned[1].endDate = l.endDate

\* An entry was extended backward by a lecture of another teacher, room,
\* clock time and number of periods, and kept its own.
C36_Witness ==
    /\ pc = "returned" /\ Len(rawLectures) = 2 /\ Len(cleaned) = 1
    /\ rawLectures[2].endDate = rawLectures[1].startDate
    /\ rawLectures[2].startDate < rawLectures[1].startDate
    /\ rawLectures[2].teacherName # rawLectures[1].teacherName
    /\ rawLectures[2].location # rawLectures[1].location
    /\ rawLectures[2].periods # rawLectures[1].periods
    /\ cleaned[1].startDate = rawLectures[2].startDate
    /\ cleaned[1].startHHMM = rawLectures[1].startHHMM
    /\ cleaned[1].teacherName = rawLectures[1].teacherName

\* C37: an exception of update_lectures leaves fetch_semester and
\* make_curriculum: once it is raised the run has ended with it, nothing is
\* requested or written afterwards (no later semester is processed), and
\* no file written before is ever removed.
C37_BatchFailurePropagates ==
    /\ []((events # << >> /\ events[Len(events)][1] = "update_lectures") =>
              pc = "error")
    /\ [][pc # "error"]_vars
    /\ [][DOMAIN saved \subseteq DOMAIN saved' /\ written \subseteq written']_vars

\* The batch of the second of three semesters failed: the files of the
\* first semester are there and the third semester was never requested.
C37_Witness ==
    /\ pc = "error" /\ Len(todo) = 3 /\ semester_k = 2
    /\ events # << >>
    /\ events[Len(events)] = <<"update_lectures", todo[2]>>
    /\ \E path \in DOMAIN saved : StrIn(semester_path(todo[1]) \o "/", path)
    /\ Cardinality({r \in DOMAIN requests : requests[r][1] = "courses"}) = 2

\* The step makes a request of the given kind for the semester in hand.
NewRequest(kind) ==
    /\ semester_k \in DOMAIN todo
    /\ requests' = Append(requests, <<kind, todo[semester_k]>>)

\* C38: courses.json of a semester is written in the step that fetched the
\* course list, so before the exams and any lecture batch of that fetch are
\* requested, and every course recorded in a courses.json has no lectures
\* and no exams; the per-course files are written only in the step in which
\* update_lectures returned the batch of those courses.
C38_CourseListSavedFirst ==
    /\ [](\A path \in DOMAIN course_lists :
              \A n \in DOMAIN course_lists[path] :
                  /\ course_lists[path][n].lectures = << >>
                  /\ course_lists[path][n].exams = << >>)
    /\ [][/\ course_lists' # course_lists =>
                /\ pc = "get_courses" /\ NewRequest("courses")
                /\ course_lists'[semester_path(todo[semester_k]) \o "/courses.json"]
                       = incomplete_courses'
          /\ (NewRequest("exams") \/ NewRequest("lectures")) =>
                /\ semester_path(todo[semester_k]) \o "/courses.json"
                       \in DOMAIN course_lists
                /\ course_lists[semester_path(todo[semester_k]) \o "/courses.json"]
                       = [n \in DOMAIN incomplete_courses |->
                             NewCourse(incomplete_courses[n].id)]
          /\ saved' # saved =>
                /\ pc = "lectures" /\ NewRequest("lectures")
                /\ \A path \in DOMAIN saved' :
                       (path \notin DOMAIN saved \/ saved'[path] # saved[path]) =>
                           \E n \in DOMAIN incomplete_courses :
                               saved'[path].id = incomplete_courses[n].id]_vars

\* The run ended: the courses.json of the first semester lists course 7
\* without exams and lectures, and the file of course 7 has both.
C38_Witness ==
    /\ pc = "done" /\ Len(todo) >= 1
    /\ semester_path(todo[1]) \o "/courses.json" \in DOMAIN course_lists
    /\ course_lists[semester_path(todo[1]) \o "/courses.json"] = <<NewCourse("7")>>
    /\ semester_path(todo[1]) \o "/7.json" \in DOMAIN saved
    /\ saved[semester_path(todo[1]) \o "/7.json"].exams # << >>
    /\ saved[semester_path(todo[1]) \o "/7.json"].lectures # << >>

\* C39: a get_json whose request or JSON parsing raises leaves every cache
\* file as it was and returns no body to the caller, and the cache changes
\* in no step of post or post_json: only the save of a get_json that got
\* its body writes a file.
C39_FailedOrPostedWritesNothing ==
    /\ [](pc \in {"raised", "post_raised"} => cacheBody = None)
    /\ [][/\ pc' \in {"raised", "posted", "post_raised"} =>
                /\ cacheFs' = cacheFs
                /\ cacheFetched' = cacheFetched
          /\ cacheFs' # cacheFs =>
                /\ pc = "got_json" /\ cacheBody # None
                /\ \A path \in DOMAIN cacheFs' :
                       path # cache_path(cacheUrl) =>
                           /\ path \in DOMAIN cacheFs
                           /\ cacheFs'[path] = cacheFs[path]]_vars

\* A get_json cached the body [7]; the next get_json of the same URL raised
\* and the cached file still holds [7].
C39_Witness ==
    /\ pc = "raised" /\ cacheCalls = 2
    /\ cacheUrl \in DOMAIN cacheFetched
    /\ cacheFetched[cacheUrl] = <<7>>
    /\ Cached(cacheUrl, <<7>>)

\* A post_json returned a body after a get_json had cached another: there is
\* no file at the cache path of the posted URL.
PostedBodyNotCached ==
    /\ pc = "posted" /\ cacheCalls = 2 /\ cacheBody = Some(<<7, 12>>)
    /\ cacheFetched # EmptyDict
    /\ cache_path(PostUrl) \notin DOMAIN cacheFs

====
